---------------------------- MODULE Spec2Model ----------------------------
(***************************************************************************)
(* Model of operast's tree-pattern algebra (src/operast/tree.py): the      *)
(* constructors Branch / And / Then / Or, canonical_nf and to_exprs.       *)
(*                                                                         *)
(* A pattern is built bottom-up the way a Python expression such as        *)
(*     And('a', Branch('b', And('c', 'd')))                                *)
(* is evaluated: the argument values are produced first (here they wait on *)
(* `stack`), then a constructor consumes the last k of them.  Once a       *)
(* single Tree is left, canonical_nf() is called on it, then canonical_nf()*)
(* again on the result, and to_exprs() on the result.                      *)
(*                                                                         *)
(* Values.  A leaf (the opaque element type T) is [kind |-> "Leaf", v].    *)
(* A Branch is [kind |-> "Branch", elems, id]; a fork is                   *)
(* [kind |-> "And" | "Then" | "Or", elems, loc].  Branch ids are the       *)
(* number n of the Python id string "B<n>".                                *)
(***************************************************************************)
EXTENDS Integers, Sequences, FiniteSets, TLC

\* ------------------------------------------------------------------ bounds
\* Size of the pattern expression: the number of leaf values written plus
\* the number of constructor calls (Branch, And, Then, Or).
MaxSize == 7
ForkKinds == {"And", "Then", "Or"}

VARIABLES
    stack,      \* argument values built so far and not yet consumed
    count,      \* Branch.count, the global id counter
    leaves,     \* number of leaf values pushed so far
    calls,      \* number of constructor calls so far
    lastCall,   \* the last constructor call: [op, args, err, result, count0]
    phase,      \* "build" | "raised" | "normalised" | "renormalised" | "exprs"
    pat,        \* the pattern canonical_nf was called on (as it was before the call)
    nf,         \* pat.canonical_nf()
    nf2,        \* nf.canonical_nf()
    exprs       \* list(nf.to_exprs())

\* operast.constraints: a Sibling or Ord expression under construction.
VARIABLES
    cstack,     \* constraint values built so far and not yet consumed
    cterms,     \* number of Terms created so far
    ccalls,     \* number of Sibling(...), Ord(...) and [...] written so far
    cphase,     \* "build" | "dag" | "flattened"
    cexpr,      \* the expression to_dag / flatten was called on, as written
    dag,        \* dict(ord.to_dag())
    flattened   \* sibling.flatten()

\* operast.operator and operast.thompson: a regex under construction, its
\* program, and one call of thompson_vm.
VARIABLES
    rstack,     \* the elements written so far and not yet consumed
    rsize,      \* number of elements and operator constructors written so far
    rphase,     \* "build" | "compiled" | "done" | "hang" | "raised"
    program,    \* compile_regex(rstack)
    emitted,    \* pc.val at the moment each instruction was yielded
    sequence,   \* thompson_vm's input
    item,       \* index in [*sequence, __NO_MATCH] of the item the call ended on
    c_list,     \* thompson_vm's c_list for that item
    visits,     \* number of instructions the call visited
    returned,   \* what thompson_vm returned ("none" when it did not)
    longest,    \* the greatest length c_list had at the end of a pass
    compared,   \* the items ident was called with
    placed      \* the program counters that were put in c_list

\* One comparison of two trees of operast.tree with ==.
VARIABLES
    equal       \* what a == b returned ("none" before the comparison)

\* operast.pattern: a pattern under construction, the objects it is made
\* of, and one call of canonical_nf.
VARIABLES
    pstack,     \* argument values built so far and not yet consumed
    heap,       \* the TreePattern objects created so far, by address
    psize,      \* number of leaf values and constructor calls written so far
    pphase,     \* "build" | "raised" | "normalised" | "failed"
    ppat,       \* the pattern canonical_nf was called on, as written
    presult     \* what canonical_nf returned, or the exception it raised

treeVars == <<stack, count, leaves, calls, lastCall, phase, pat, nf, nf2, exprs>>
cVars == <<cstack, cterms, ccalls, cphase, cexpr, dag, flattened>>
rVars == <<rstack, rsize, rphase, program, emitted, sequence, item, c_list,
           visits, returned, longest, compared, placed>>
eqVars == <<equal>>
pVars == <<pstack, heap, psize, pphase, ppat, presult>>
oVars == <<eqVars, pVars>>
vars == <<treeVars, cVars, rVars, oVars>>

\* ------------------------------------------------------------ basic values
Leaf(v) == [kind |-> "Leaf", v |-> v]
None == [kind |-> "None"]

IsTree(e) == e.kind \in {"Branch", "And", "Then", "Or"}
IsFork(e) == e.kind \in ForkKinds

\* The list a Branch object holds after list.__init__, with its id.
MkBranch(elems, id) == [kind |-> "Branch", elems |-> elems, id |-> id]

\* The list a Fork object holds after list.__init__, with its loc.
MkFork(kind, elems, loc) == [kind |-> kind, elems |-> elems, loc |-> loc]

\* Concatenation of a sequence of sequences.
RECURSIVE Concat(_)
Concat(ss) == IF ss = <<>> THEN <<>> ELSE Head(ss) \o Concat(Tail(ss))

\* Number of non-Tree arguments among the first k of args.
RECURSIVE NonTrees(_, _)
NonTrees(args, k) ==
    IF k = 0 THEN 0
    ELSE NonTrees(args, k - 1) + (IF IsTree(args[k]) THEN 0 ELSE 1)

\* ------------------------------------------------------------ constructors
\* Branch.__init__ with the check made on self instead of self[:-1].
BranchInitRaises_all(args) == \E i \in 1..Len(args) : IsTree(args[i])

\* Branch.__init__: the id is taken and Branch.count incremented before the
\* check, which looks at self[:-1] only.
BranchInitRaises(args) == \E i \in 1..(Len(args) - 1) : IsTree(args[i])

\* Fork.__init__: every argument that is not a Tree is wrapped in Branch(e),
\* left to right, each wrap taking the next id.
ForkInitTrees(args, count0) ==
    [i \in 1..Len(args) |->
        IF IsTree(args[i]) THEN args[i]
        ELSE MkBranch(<<args[i]>>, count0 + NonTrees(args, i - 1))]

\* ----------------------------------------------------------- canonical_nf
\* flat without the comparison of loc.
flat_any_loc(t, elems, loc) ==
    Concat([i \in 1..Len(elems) |->
        IF elems[i].kind = t THEN elems[i].elems ELSE <<elems[i]>>])

\* flat(t, elems, loc): an elem of class t with the same loc is replaced by
\* its own elems, any other elem is kept.
flat(t, elems, loc) ==
    Concat([i \in 1..Len(elems) |->
        IF elems[i].kind = t /\ loc = elems[i].loc
        THEN elems[i].elems ELSE <<elems[i]>>])

\* A product whose leftmost position advances fastest.
RECURSIVE product_colex(_)
product_colex(seqs) ==
    IF seqs = <<>> THEN << <<>> >>
    ELSE LET rest == product_colex(SubSeq(seqs, 1, Len(seqs) - 1))
             h == seqs[Len(seqs)]
         IN  Concat([i \in 1..Len(h) |->
                 [j \in 1..Len(rest) |-> rest[j] \o <<h[i]>>]])

\* itertools.product(*seqs): the tuples in lexicographic order of positions,
\* the rightmost position advancing fastest.
RECURSIVE product(_)
product(seqs) ==
    IF seqs = <<>> THEN << <<>> >>
    ELSE LET rest == product(Tail(seqs))
             h == Head(seqs)
         IN  Concat([i \in 1..Len(h) |->
                 [j \in 1..Len(rest) |-> <<h[i]>> \o rest[j]]])

RECURSIVE FirstOr(_, _)
FirstOr(elems, i) ==
    IF i > Len(elems) THEN 0
    ELSE IF elems[i].kind = "Or" THEN i ELSE FirstOr(elems, i + 1)

\* _disjunctive_normalise that splits the first Or child only.
disjunctive_normalise_first(self, loc) ==
    LET splat_or == [i \in 1..Len(self.elems) |->
            IF i = FirstOr(self.elems, 1) THEN self.elems[i].elems
            ELSE <<self.elems[i]>>]
        tuples == product(splat_or)
    IN  [j \in 1..Len(tuples) |->
            MkFork(self.kind, flat(self.kind, tuples[j], loc), loc)]

\* Fork._disjunctive_normalise: one fork of self's kind per tuple of the
\* product of the arms, each flattened again.
disjunctive_normalise(self, loc) ==
    LET splat_or == [i \in 1..Len(self.elems) |->
            IF self.elems[i].kind = "Or" THEN self.elems[i].elems
            ELSE <<self.elems[i]>>]
        tuples == product(splat_or)
    IN  [j \in 1..Len(tuples) |->
            MkFork(self.kind, flat(self.kind, tuples[j], loc), loc)]

RECURSIVE canonical_nf(_, _, _)

\* Branch.canonical_nf passing its own loc on to the Tree tail.
Branch_canonical_nf_same_loc(self, loc, elems) ==
    LET n == Len(self.elems)
        rest == SubSeq(self.elems, 1, n - 1)
        last == self.elems[n]
    IN  IF IsTree(last)
        THEN canonical_nf(last, loc, elems \o rest)
        ELSE [self EXCEPT !.elems = elems \o self.elems]

\* Branch.canonical_nf passing its own leaves to the Tree tail without the
\* prefix it was given.
Branch_canonical_nf_drop_prefix(self, loc, elems) ==
    LET n == Len(self.elems)
        rest == SubSeq(self.elems, 1, n - 1)
        last == self.elems[n]
    IN  IF IsTree(last)
        THEN canonical_nf(last, loc + Len(rest), rest)
        ELSE [self EXCEPT !.elems = elems \o self.elems]

\* Branch.canonical_nf returning Branch(*elems, *self), a new object with an
\* id of its own, instead of self.
Branch_canonical_nf_copy(self, loc, elems) ==
    LET n == Len(self.elems)
        rest == SubSeq(self.elems, 1, n - 1)
        last == self.elems[n]
    IN  IF IsTree(last)
        THEN canonical_nf(last, loc + Len(rest), elems \o rest)
        ELSE MkBranch(elems \o self.elems, self.id + MaxSize)

\* Branch.canonical_nf: a Tree tail is normalised with the leaves before it
\* added to the prefix; otherwise the prefix is inserted in front, in place.
Branch_canonical_nf(self, loc, elems) ==
    LET n == Len(self.elems)
        rest == SubSeq(self.elems, 1, n - 1)
        last == self.elems[n]
    IN  IF IsTree(last)
        THEN canonical_nf(last, loc + Len(rest), elems \o rest)
        ELSE [self EXCEPT !.elems = elems \o self.elems]

\* Fork.canonical_nf without the distribution over Or children.
Fork_canonical_nf_no_lift(self, loc, elems) ==
    IF Len(self.elems) = 1
    THEN canonical_nf(self.elems[1], loc, elems)
    ELSE LET norms == [i \in 1..Len(self.elems) |->
                          canonical_nf(self.elems[i], loc, elems)]
         IN  MkFork(self.kind, flat(self.kind, norms, loc), loc)

\* Fork.canonical_nf (And, Then).
Fork_canonical_nf(self, loc, elems) ==
    IF Len(self.elems) = 1
    THEN canonical_nf(self.elems[1], loc, elems)
    ELSE LET norms == [i \in 1..Len(self.elems) |->
                          canonical_nf(self.elems[i], loc, elems)]
             new == MkFork(self.kind, flat(self.kind, norms, loc), loc)
         IN  IF \E i \in 1..Len(new.elems) : new.elems[i].kind = "Or"
             THEN MkFork("Or", disjunctive_normalise(new, loc), 0)
             ELSE new

\* Or.canonical_nf without the single-child case.
Or_canonical_nf_keep_single(self, loc, elems) ==
    LET norms == [i \in 1..Len(self.elems) |->
                     canonical_nf(self.elems[i], loc, elems)]
    IN  MkFork("Or", flat("Or", norms, 0), 0)

\* Or.canonical_nf.
Or_canonical_nf(self, loc, elems) ==
    LET norms == [i \in 1..Len(self.elems) |->
                     canonical_nf(self.elems[i], loc, elems)]
    IN  IF Len(self.elems) = 1 THEN norms[1]
        ELSE MkFork("Or", flat("Or", norms, 0), 0)

canonical_nf(self, loc, elems) ==
    CASE self.kind = "Branch" -> Branch_canonical_nf(self, loc, elems)
      [] self.kind = "Or"     -> Or_canonical_nf(self, loc, elems)
      [] OTHER                -> Fork_canonical_nf(self, loc, elems)

\* ------------------------------------------------------------- in place
\* What canonical_nf leaves in the objects of the pattern it was called on:
\* a Branch without a Tree tail is the only object written (self[:0] = elems);
\* forks and Branches with a Tree tail are read, never written.
RECURSIVE InPlace(_, _)
InPlace(self, elems) ==
    IF self.kind = "Branch"
    THEN LET n == Len(self.elems)
             rest == SubSeq(self.elems, 1, n - 1)
             last == self.elems[n]
         IN  IF IsTree(last)
             THEN [self EXCEPT !.elems = rest \o <<InPlace(last, elems \o rest)>>]
             ELSE [self EXCEPT !.elems = elems \o self.elems]
    ELSE [self EXCEPT !.elems =
             [i \in 1..Len(self.elems) |-> InPlace(self.elems[i], elems)]]

\* --------------------------------------------------------------- to_exprs
\* A Branch id used as a sibling or order key (the str "B<id>").
Name(id) == [type |-> "Name", id |-> id]

\* Sib(index, *elems), Total(*elems) and Partial(*elems) of
\* operast.constraints, as the values they are constructed from.
Sib(index, elems) == [type |-> "Sib", index |-> index, elems |-> elems]
Total(elems) == [type |-> "Total", elems |-> elems]
Partial(elems) == [type |-> "Partial", elems |-> elems]

\* Fork.order without the override in Then.
order_partial(self, elems) == Partial(elems)

\* Fork.order and Then.order: the Ord class of a fork.
order(self, elems) ==
    IF self.kind = "Then" THEN Total(elems) ELSE Partial(elems)

\* dict(t for d in alias_iter for t in d.items()): a later dict wins.
RECURSIVE MergeAliases(_)
MergeAliases(ds) ==
    IF ds = <<>> THEN <<>>
    ELSE ds[Len(ds)] @@ MergeAliases(SubSeq(ds, 1, Len(ds) - 1))

RECURSIVE to_exprs(_)

\* Branch.to_exprs.
Branch_to_exprs(self) ==
    << [aliases |-> (self.id :> self), sib |-> Name(self.id),
        ord |-> Name(self.id)] >>

\* Fork.to_exprs (And, Then): next() of every child, zipped.
Fork_to_exprs(self) ==
    LET firsts == [i \in 1..Len(self.elems) |-> Head(to_exprs(self.elems[i]))]
        alias_iter == [i \in 1..Len(firsts) |-> firsts[i].aliases]
        sib_iter == [i \in 1..Len(firsts) |-> firsts[i].sib]
        ord_iter == [i \in 1..Len(firsts) |-> firsts[i].ord]
    IN  << [aliases |-> MergeAliases(alias_iter),
            sib |-> Sib(self.loc, sib_iter),
            ord |-> order(self, ord_iter)] >>

\* Or.to_exprs that stops after its first arm.
Or_to_exprs_first(self) == to_exprs(self.elems[1])

\* Or.to_exprs: everything every arm yields, in arm order.
Or_to_exprs(self) ==
    Concat([i \in 1..Len(self.elems) |-> to_exprs(self.elems[i])])

to_exprs(self) ==
    CASE self.kind = "Branch" -> Branch_to_exprs(self)
      [] self.kind = "Or"     -> Or_to_exprs(self)
      [] OTHER                -> Fork_to_exprs(self)

\* ------------------------------------------------------------ tree equality
RECURSIVE Tree_eq(_, _)

\* The element's own __eq__ called as a plain function (get_ext_eq with no
\* override registered).  For a leaf value (a str in the tests) and for the
\* None that zip_longest fills in, it answers NotImplemented for an operand
\* of another type, and all() takes NotImplemented as true.
ext_eq(a, b) ==
    IF a.kind = "Leaf" /\ b.kind = "Leaf" THEN a.v = b.v ELSE TRUE

\* tree_elem_eq: a Tree is compared with ==, which is False against anything
\* that is not a Tree; any other element goes through the bridge.
tree_elem_eq(a, b) ==
    IF IsTree(a)
    THEN (IF IsTree(b) THEN Tree_eq(a, b) ELSE FALSE)
    ELSE ext_eq(a, b)

\* Tree.__eq__: same concrete class, and every pair of zip_longest (the
\* shorter list filled with None) equal.
Tree_eq(self, other) ==
    LET n == IF Len(self.elems) > Len(other.elems)
             THEN Len(self.elems) ELSE Len(other.elems)
        at(t, i) == IF i <= Len(t.elems) THEN t.elems[i] ELSE None
    IN  /\ self.kind = other.kind
        /\ \A i \in 1..n : tree_elem_eq(at(self, i), at(other, i))

\* -------------------------------------------------------------- the machine

Init ==
    /\ stack = <<>>
    /\ count = 0
    /\ leaves = 0
    /\ calls = 0
    /\ lastCall = [op |-> "none", args |-> <<>>, err |-> "none",
                   result |-> None, count0 |-> 0]
    /\ phase = "build"
    /\ pat = None
    /\ nf = None
    /\ nf2 = None
    /\ exprs = <<>>
    /\ cstack = <<>>
    /\ cterms = 0
    /\ ccalls = 0
    /\ cphase = "build"
    /\ cexpr = None
    /\ dag = <<>>
    /\ flattened = <<>>
    /\ rstack = <<>>
    /\ rsize = 0
    /\ rphase = "build"
    /\ program = <<>>
    /\ emitted = <<>>
    /\ sequence = <<>>
    /\ item = 0
    /\ c_list = <<>>
    /\ visits = 0
    /\ returned = "none"
    /\ longest = 0
    /\ compared = {}
    /\ placed = {}
    /\ equal = "none"
    /\ pstack = <<>>
    /\ heap = <<>>
    /\ psize = 0
    /\ pphase = "build"
    /\ ppat = None
    /\ presult = None

\* A leaf value is evaluated as the next constructor argument.  The k-th leaf
\* written in the pattern is the value k, so the leaves of one pattern are
\* pairwise different.
PushLeaf ==
    /\ phase = "build"
    /\ leaves + calls < MaxSize
    /\ stack' = Append(stack, Leaf(leaves + 1))
    /\ leaves' = leaves + 1
    /\ UNCHANGED <<count, calls, lastCall, phase, pat, nf, nf2, exprs>>
    /\ UNCHANGED <<cVars, rVars, oVars>>

\* The record of a constructor call: the class, the arguments, the exception
\* raised ("none" when the call returned), the object returned (None when it
\* raised) and Branch.count before the call.
Call(op, args, err, result, count0) ==
    [op |-> op, args |-> args, err |-> err, result |-> result,
     count0 |-> count0]

\* Branch(*args) with the last k values as args.  An exception ends the
\* evaluation of the pattern expression.
CallBranch(k) ==
    /\ phase = "build"
    /\ leaves + calls < MaxSize
    /\ k \in 0..Len(stack)
    /\ LET args == SubSeq(stack, Len(stack) - k + 1, Len(stack))
           below == SubSeq(stack, 1, Len(stack) - k)
       IN  IF k = 0
           THEN \* missing positional argument 'elem': __init__ does not run
                /\ lastCall' = Call("Branch", args, "TypeError", None, count)
                /\ phase' = "raised"
                /\ UNCHANGED <<stack, count>>
           ELSE /\ count' = count + 1
                /\ IF BranchInitRaises(args)
                   THEN /\ lastCall' =
                               Call("Branch", args, "ValueError", None, count)
                        /\ stack' = below
                        /\ phase' = "raised"
                   ELSE /\ lastCall' = Call("Branch", args, "none",
                                            MkBranch(args, count), count)
                        /\ stack' = Append(below, MkBranch(args, count))
                        /\ UNCHANGED phase
    /\ calls' = calls + 1
    /\ UNCHANGED <<leaves, pat, nf, nf2, exprs>>
    /\ UNCHANGED <<cVars, rVars, oVars>>

\* And(*args), Then(*args) or Or(*args) with the last k values as args.
CallFork(kind, k) ==
    /\ phase = "build"
    /\ leaves + calls < MaxSize
    /\ k \in 0..Len(stack)
    /\ LET args == SubSeq(stack, Len(stack) - k + 1, Len(stack))
           below == SubSeq(stack, 1, Len(stack) - k)
           made == MkFork(kind, ForkInitTrees(args, count), 0)
       IN  IF k = 0
           THEN /\ lastCall' = Call(kind, args, "TypeError", None, count)
                /\ phase' = "raised"
                /\ UNCHANGED <<stack, count>>
           ELSE /\ count' = count + NonTrees(args, k)
                /\ lastCall' = Call(kind, args, "none", made, count)
                /\ stack' = Append(below, made)
                /\ UNCHANGED phase
    /\ calls' = calls + 1
    /\ UNCHANGED <<leaves, pat, nf, nf2, exprs>>
    /\ UNCHANGED <<cVars, rVars, oVars>>

\* pattern.canonical_nf() on the one Tree that has been built.  The call
\* returns the normal form and leaves its prefixes in the Branches of the
\* pattern, which are the Branches of the result.
Normalise ==
    /\ phase = "build"
    /\ Len(stack) = 1
    /\ IsTree(stack[1])
    /\ pat' = stack[1]
    /\ nf' = canonical_nf(stack[1], 0, <<>>)
    /\ stack' = <<InPlace(stack[1], <<>>)>>
    /\ phase' = "normalised"
    /\ UNCHANGED <<count, leaves, calls, lastCall, nf2, exprs>>
    /\ UNCHANGED <<cVars, rVars, oVars>>

\* canonical_nf() on the result of the first call.
Renormalise ==
    /\ phase = "normalised"
    /\ nf2' = canonical_nf(nf, 0, <<>>)
    /\ nf' = InPlace(nf, <<>>)
    /\ phase' = "renormalised"
    /\ UNCHANGED <<stack, count, leaves, calls, lastCall, pat, exprs>>
    /\ UNCHANGED <<cVars, rVars, oVars>>

\* list(result.to_exprs()) on the result of the first call.
ToExprs ==
    /\ phase = "normalised"
    /\ exprs' = to_exprs(nf)
    /\ phase' = "exprs"
    /\ UNCHANGED <<stack, count, leaves, calls, lastCall, pat, nf, nf2>>
    /\ UNCHANGED <<cVars, rVars, oVars>>

Next ==
    \/ PushLeaf
    \/ \E k \in 0..MaxSize : CallBranch(k)
    \/ \E kind \in ForkKinds, k \in 0..MaxSize : CallFork(kind, k)
    \/ Normalise
    \/ Renormalise
    \/ ToExprs

Spec == Init /\ [][Next]_vars

\* ------------------------------------------------------- walking a pattern
\* Every Tree of t, t first, depth first and left to right.
RECURSIVE Walk(_)
Walk(t) ==
    IF ~IsTree(t) THEN <<>>
    ELSE <<t>> \o Concat([i \in 1..Len(t.elems) |-> Walk(t.elems[i])])

Count(seq, P(_)) == Cardinality({i \in 1..Len(seq) : P(seq[i])})
IsOr(t) == t.kind = "Or"
OrCount(t) == Count(Walk(t), IsOr)
\* canonical_nf() has just returned.
Normalised == phase = "normalised"

\* The And and Then forks of t, and the Or forks below its root.
InnerForks(t) ==
    LET w == Walk(t)
    IN  {w[i] : i \in {j \in 1..Len(w) : IsFork(w[j]) /\ (j > 1 \/ w[j].kind # "Or")}}

\* ------------------------------------------------------------------- C1
\* C1: canonical_nf is idempotent under tree equality: canonical_nf() called
\* on the result of p.canonical_nf() gives a tree equal to p.canonical_nf().
C1_Idempotent ==
    phase = "renormalised" => Tree_eq(nf2, nf)

\* ------------------------------------------------------------------- C2
\* C2: the result of canonical_nf contains at most one Or; when there is one
\* it is the root, and no arm of it contains an Or.
C2_AtMostOneOr ==
    Normalised =>
        /\ OrCount(nf) <= 1
        /\ OrCount(nf) = 1 => nf.kind = "Or"
        /\ \A f \in InnerForks(nf) : f.kind # "Or"

\* A pattern with two Or nodes, one of them below the root, was normalised to
\* an Or.
C2_Witness ==
    /\ Normalised
    /\ OrCount(pat) >= 2
    /\ pat.kind # "Or"
    /\ nf.kind = "Or"

\* ------------------------------------------------------------------- C6
\* C6 as stated: after canonical_nf every fork other than the root Or has only
\* children that are a Branch or a fork of its own kind.
C6_SameKindChildren ==
    Normalised =>
        \A f \in InnerForks(nf) : \A i \in 1..Len(f.elems) :
            f.elems[i].kind \in {"Branch", f.kind}

\* C6 as amended: after canonical_nf every fork other than the root Or is an
\* And or a Then whose children are Branches of leaves, Ands or Thens, never
\* an Or; an And may have a Then child and a Then an And child.
C6_NoOrChildren ==
    Normalised =>
        \A f \in InnerForks(nf) :
            /\ f.kind \in {"And", "Then"}
            /\ \A i \in 1..Len(f.elems) :
                /\ f.elems[i].kind \in {"Branch", "And", "Then"}
                /\ f.elems[i].kind = "Branch" =>
                       \A j \in 1..Len(f.elems[i].elems) :
                           ~IsTree(f.elems[i].elems[j])

\* An And with a Then child (or a Then with an And child) in the result of a
\* pattern that also held an Or.
C6_Witness ==
    /\ Normalised
    /\ OrCount(pat) >= 1
    /\ \E f \in InnerForks(nf) : \E i \in 1..Len(f.elems) :
           f.elems[i].kind \in {"And", "Then"} \ {f.kind}

\* ------------------------------------------------------------------- C8
\* The Tree at the end of a chain of single-child forks.
RECURSIVE Uncollapsed(_)
Uncollapsed(t) ==
    IF IsFork(t) /\ Len(t.elems) = 1 THEN Uncollapsed(t.elems[1]) ELSE t

\* C8: a fork with exactly one child normalises to the canonical form of that
\* child, at any depth, and the result of canonical_nf holds no fork with
\* fewer than two children.
C8_SingleChildCollapse ==
    Normalised =>
        /\ LET w == Walk(nf)
           IN  \A i \in 1..Len(w) : IsFork(w[i]) => Len(w[i].elems) >= 2
        /\ Uncollapsed(pat).kind = "Branch"
               /\ ~IsTree(Uncollapsed(pat).elems[Len(Uncollapsed(pat).elems)])
               => nf = Uncollapsed(pat)

\* Three nested single-child forks around one leaf came out as its Branch.
C8_Witness ==
    /\ Normalised
    /\ IsFork(pat) /\ Len(pat.elems) = 1
    /\ IsFork(pat.elems[1]) /\ Len(pat.elems[1].elems) = 1
    /\ IsFork(pat.elems[1].elems[1]) /\ Len(pat.elems[1].elems[1].elems) = 1
    /\ nf.kind = "Branch"

\* --------------------------------------------------------- reading a tree
\* The Branches of t that hold leaves only, depth first and left to right.
RECURSIVE LeafBranches(_)
LeafBranches(t) ==
    IF t.kind = "Branch"
    THEN (IF IsTree(t.elems[Len(t.elems)])
          THEN LeafBranches(t.elems[Len(t.elems)]) ELSE <<t>>)
    ELSE Concat([i \in 1..Len(t.elems) |-> LeafBranches(t.elems[i])])

\* Their ids, in the same order.
RECURSIVE BranchSeq(_)
BranchSeq(t) ==
    IF t.kind = "Branch"
    THEN (IF IsTree(t.elems[Len(t.elems)])
          THEN BranchSeq(t.elems[Len(t.elems)]) ELSE <<t.id>>)
    ELSE Concat([i \in 1..Len(t.elems) |-> BranchSeq(t.elems[i])])

BranchIds(t) == LET ids == BranchSeq(t) IN {ids[i] : i \in 1..Len(ids)}

\* The disjuncts of a normal form: the arms of a root Or, or the form itself.
Disjuncts(t) == IF t.kind = "Or" THEN t.elems ELSE <<t>>

RECURSIVE IsSubseq(_, _)
IsSubseq(a, b) ==
    IF a = <<>> THEN TRUE
    ELSE IF b = <<>> THEN FALSE
    ELSE IF Head(a) = Head(b) THEN IsSubseq(Tail(a), Tail(b))
    ELSE IsSubseq(a, Tail(b))

\* ------------------------------------------------------------------- C3
\* t with xs put in front of the leaves of every Branch and n added to the
\* loc of every And and Then.
RECURSIVE WithPrefix(_, _, _)
WithPrefix(t, n, xs) ==
    IF t.kind = "Branch" THEN [t EXCEPT !.elems = xs \o t.elems]
    ELSE [t EXCEPT
            !.elems = [i \in 1..Len(t.elems) |-> WithPrefix(t.elems[i], n, xs)],
            !.loc = IF t.kind = "Or" THEN 0 ELSE t.loc + n]

\* The number of leaves written before the first fork of two or more
\* children, along Branch tails and single-child forks.
RECURSIVE LeadLeaves(_)
LeadLeaves(t) ==
    IF t.kind = "Branch"
    THEN (IF IsTree(t.elems[Len(t.elems)])
          THEN Len(t.elems) - 1 + LeadLeaves(t.elems[Len(t.elems)])
          ELSE 0)
    ELSE IF Len(t.elems) = 1 THEN LeadLeaves(t.elems[1]) ELSE 0

HasTreeTail(t) == t.kind = "Branch" /\ IsTree(t.elems[Len(t.elems)])

\* C3: Branch(x1..xn, T).canonical_nf() is the canonical form of T with
\* x1..xn put in front of every Branch, in order, and with the scope of every
\* And/Then moved down by n; an And/Then root has the number of leaves
\* written before it as its loc (n when T is a fork of two or more children).
C3_PrefixPropagation ==
    Normalised /\ HasTreeTail(pat) =>
        LET n == Len(pat.elems) - 1
            xs == SubSeq(pat.elems, 1, n)
            T == pat.elems[n + 1]
        IN  /\ nf = WithPrefix(canonical_nf(T, 0, <<>>), n, xs)
            /\ LET bs == LeafBranches(nf)
               IN  \A i \in 1..Len(bs) : SubSeq(bs[i].elems, 1, n) = xs
            /\ nf.kind \in {"And", "Then"} =>
                   /\ nf.loc = LeadLeaves(pat)
                   /\ IsFork(T) /\ Len(T.elems) >= 2 => nf.loc = n

\* A Branch of two leaves and an And or Then of two children was normalised.
C3_Witness ==
    /\ Normalised
    /\ HasTreeTail(pat)
    /\ Len(pat.elems) = 3
    /\ pat.elems[3].kind \in {"And", "Then"}
    /\ nf.kind = pat.elems[3].kind
    /\ nf.loc = 2
    /\ Len(nf.elems) = 2

\* ------------------------------------------------------------------- C4
\* Sequence s without the elements that repeat the one before them.
RECURSIVE Dedup(_)
Dedup(s) ==
    IF Len(s) <= 1 THEN s
    ELSE IF s[1] = s[2] THEN Dedup(Tail(s))
    ELSE <<s[1]>> \o Dedup(Tail(s))

\* For every leaf Branch of the pattern t as written, <<id, chain>> where
\* chain lists, outermost first, <<kind, scope>> of the And and Then forks of
\* two or more children around it; the scope of a fork is the number of
\* leaves written before it.
RECURSIVE WrittenChains(_, _, _)
WrittenChains(t, scope, chain) ==
    IF t.kind = "Branch"
    THEN (IF IsTree(t.elems[Len(t.elems)])
          THEN WrittenChains(t.elems[Len(t.elems)],
                             scope + Len(t.elems) - 1, chain)
          ELSE {<<t.id, chain>>})
    ELSE LET inner == IF t.kind = "Or" \/ Len(t.elems) = 1 THEN chain
                      ELSE Append(chain, <<t.kind, scope>>)
         IN  UNION {WrittenChains(t.elems[i], scope, inner) :
                        i \in 1..Len(t.elems)}

\* The same for a normal form, the scope of a fork being its loc.
RECURSIVE ResultChains(_, _)
ResultChains(t, chain) ==
    IF t.kind = "Branch" THEN {<<t.id, chain>>}
    ELSE LET inner == IF t.kind = "Or" THEN chain
                      ELSE Append(chain, <<t.kind, t.loc>>)
         IN  UNION {ResultChains(t.elems[i], inner) : i \in 1..Len(t.elems)}

\* C4: a child fork is spliced into its And/Then parent, in place and in
\* order, exactly when it has the parent's kind and loc: around every Branch
\* of the result are the written forks with each run of forks of equal kind
\* and scope merged into one, and nothing else is merged; the Branches keep
\* their written order; an Or below an Or is always spliced.
C4_SameKindFlattening ==
    Normalised =>
        /\ ResultChains(nf, <<>>) =
               {<<c[1], Dedup(c[2])>> : c \in WrittenChains(pat, 0, <<>>)}
        /\ \A i \in 1..Len(Disjuncts(nf)) :
               IsSubseq(BranchSeq(Disjuncts(nf)[i]), BranchSeq(pat))
        /\ OrCount(pat) = 0 => BranchSeq(nf) = BranchSeq(pat)
        /\ \A f \in InnerForks(nf) : \A i \in 1..Len(f.elems) :
               f.elems[i].kind = f.kind => f.elems[i].loc # f.loc
        /\ nf.kind = "Or" =>
               \A i \in 1..Len(nf.elems) : nf.elems[i].kind # "Or"

\* A fork kept a child of its own kind, whose loc differs.
C4_Witness ==
    /\ Normalised
    /\ nf.kind \in {"And", "Then"}
    /\ \E i \in 1..Len(nf.elems) :
           nf.elems[i].kind = nf.kind /\ nf.elems[i].loc # nf.loc

\* ------------------------------------------------------------------- C5
RECURSIVE Prod(_)
Prod(ks) == IF ks = <<>> THEN 1 ELSE Head(ks) * Prod(Tail(ks))

\* C5: an And/Then whose children's canonical forms hold Ors of k1..kj arms
\* normalises to an Or of exactly k1*...*kj arms, one per tuple of arms in
\* lexicographic order; every arm is a fork of the original kind that keeps
\* the children, and their Branches, in the written left-to-right order.
C5_Distribution ==
    LET m == Len(pat.elems)
        norms == [i \in 1..m |-> canonical_nf(pat.elems[i], 0, <<>>)]
        arms == [i \in 1..m |-> Disjuncts(norms[i])]
        ks == [i \in 1..m |-> Len(arms[i])]
        \* 1-based position in arms[i] of the arm used by disjunct number d
        digit(d, i) == (((d - 1) \div Prod(SubSeq(ks, i + 1, m))) % ks[i]) + 1
    IN  (/\ Normalised
         /\ pat.kind \in {"And", "Then"}
         /\ m >= 2
         /\ \E i \in 1..m : norms[i].kind = "Or")
        =>
        /\ nf.kind = "Or"
        /\ Len(nf.elems) = Prod(ks)
        /\ \A d \in 1..Len(nf.elems) :
               /\ nf.elems[d].kind = pat.kind
               /\ nf.elems[d].loc = 0
               /\ BranchSeq(nf.elems[d]) =
                      Concat([i \in 1..m |-> BranchSeq(arms[i][digit(d, i)])])

\* Two Or children of two arms each gave four disjuncts.
C5_Witness ==
    /\ Normalised
    /\ pat.kind \in {"And", "Then"}
    /\ Len(pat.elems) = 2
    /\ pat.elems[1].kind = "Or" /\ Len(pat.elems[1].elems) = 2
    /\ pat.elems[2].kind = "Or" /\ Len(pat.elems[2].elems) = 2
    /\ nf.kind = "Or"
    /\ Len(nf.elems) = 4

\* ------------------------------------------------------------------- C7
\* A Tree every Branch of which holds a Tree in its last place only, and no
\* combinator of which is empty.
RECURSIVE StructurallyValid(_)
StructurallyValid(t) ==
    /\ Len(t.elems) >= 1
    /\ \A i \in 1..Len(t.elems) :
           IF IsTree(t.elems[i])
           THEN (t.kind = "Branch" => i = Len(t.elems))
                /\ StructurallyValid(t.elems[i])
           ELSE t.kind = "Branch"

\* C7: structure is enforced by the constructors: Branch raises exactly when
\* a Tree stands before its last element, every constructor raises on zero
\* elements, a Branch whose only Tree is its last (or single) element is
\* accepted, and so every pattern canonical_nf can be given is valid.
C7_ConstructionErrors ==
    /\ lastCall.op = "Branch" =>
           /\ lastCall.err = "TypeError" <=> Len(lastCall.args) = 0
           /\ lastCall.err = "ValueError" <=>
                  \E i \in 1..Len(lastCall.args) :
                      i < Len(lastCall.args) /\ IsTree(lastCall.args[i])
    /\ lastCall.op \in ForkKinds =>
           /\ lastCall.err = "TypeError" <=> Len(lastCall.args) = 0
           /\ lastCall.err # "ValueError"
    /\ lastCall.op # "none" =>
           IF lastCall.err = "none"
           THEN /\ lastCall.result.kind = lastCall.op
                /\ Len(lastCall.result.elems) = Len(lastCall.args)
                /\ StructurallyValid(lastCall.result)
           ELSE lastCall.result = None
    /\ Normalised => StructurallyValid(pat)

\* Branch(t) with a single Tree argument was accepted, after which a Branch
\* with that Branch before its last element was refused.
C7_Witness ==
    /\ lastCall.op = "Branch"
    /\ lastCall.err = "ValueError"
    /\ Len(lastCall.args) = 2
    /\ lastCall.args[1].kind = "Branch"
    /\ Len(lastCall.args[1].elems) = 1
    /\ IsTree(lastCall.args[1].elems[1])

\* ------------------------------------------------------------------- C9
\* C9: to_exprs on a normal form yields exactly one triple per disjunct, in
\* arm order: one for a Branch, And or Then root, one per arm of an Or root;
\* a Branch yields ({id: itself}, id, id).
C9_OneTriplePerDisjunct ==
    phase = "exprs" =>
        /\ Len(exprs) = Len(Disjuncts(nf))
        /\ nf.kind # "Or" => Len(exprs) = 1
        /\ \A d \in 1..Len(exprs) :
               LET arm == Disjuncts(nf)[d]
               IN  /\ DOMAIN exprs[d].aliases = BranchIds(arm)
                   /\ arm.kind = "Branch" =>
                          /\ exprs[d].aliases[arm.id] = arm
                          /\ exprs[d].sib = Name(arm.id)
                          /\ exprs[d].ord = Name(arm.id)

\* An Or of a Branch and a fork yielded two triples.
C9_Witness ==
    /\ phase = "exprs"
    /\ nf.kind = "Or"
    /\ Len(exprs) = 2
    /\ nf.elems[1].kind = "Branch"
    /\ nf.elems[2].kind \in {"And", "Then"}

\* ------------------------------------------------------------------- C10
\* The sibling expression s groups the children of t by t's loc, child by
\* child, a Branch standing as its id.
RECURSIVE SibOf(_, _)
SibOf(t, s) ==
    IF t.kind = "Branch" THEN s = Name(t.id)
    ELSE /\ s.type = "Sib"
         /\ s.index = t.loc
         /\ Len(s.elems) = Len(t.elems)
         /\ \A i \in 1..Len(t.elems) : SibOf(t.elems[i], s.elems[i])

\* The order expression o orders the children of t, child by child: Total
\* for a Then, Partial for an And.
RECURSIVE OrdOf(_, _)
OrdOf(t, o) ==
    IF t.kind = "Branch" THEN o = Name(t.id)
    ELSE /\ o.type = (IF t.kind = "Then" THEN "Total" ELSE "Partial")
         /\ Len(o.elems) = Len(t.elems)
         /\ \A i \in 1..Len(t.elems) : OrdOf(t.elems[i], o.elems[i])

\* C10: the triple of a canonical And/Then F has the ids of all Branches
\* below F as alias keys, each mapped to its Branch; a sibling expression of
\* index F.loc over the children's sibling keys in child order; an order
\* expression over the children's order keys in child order, Total for a Then
\* and Partial for an And.
C10_ForkTriple ==
    phase = "exprs" =>
        \A d \in 1..Len(Disjuncts(nf)) :
            LET F == Disjuncts(nf)[d]
                e == exprs[d]
            IN  F.kind \in {"And", "Then"} =>
                    /\ DOMAIN e.aliases = BranchIds(F)
                    /\ LET bs == LeafBranches(F)
                       IN  \A i \in 1..Len(bs) : e.aliases[bs[i].id] = bs[i]
                    /\ SibOf(F, e.sib)
                    /\ OrdOf(F, e.ord)

\* The triple of an And with a Then child at another loc (or the reverse).
C10_Witness ==
    /\ phase = "exprs"
    /\ nf.kind \in {"And", "Then"}
    /\ \E i \in 1..Len(nf.elems) :
           /\ nf.elems[i].kind \in {"And", "Then"} \ {nf.kind}
           /\ nf.elems[i].loc # nf.loc

\* ===================================================== operast.constraints
\* Size of a constraint expression: the number of Terms plus the number of
\* Sibling(...), Ord(...) and [...] written.
MaxCSize == 6
SibIndices == {0, 1}

\* Term(name): value keeps its default, None.  The k-th Term created is named
\* k, so the names of one expression are pairwise different.
Term(name) == [type |-> "Term", name |-> name, value |-> None]

\* Sibling(index, *elems).
Sibling(index, elems) == [type |-> "Sibling", index |-> index, elems |-> elems]

\* Ord(*elems), and a Python list of Terms and Ords as an element of an Ord.
Ord(elems) == [type |-> "Ord", elems |-> elems]
List(elems) == [type |-> "list", elems |-> elems]

IsTerm(e) == e.type = "Term"

\* Term.__eq__ and Sibling.__eq__.  A Term against a Sibling is
\* NotImplemented on both sides, which == turns into an identity test.
RECURSIVE Sibling_eq(_, _)
Term_eq(self, other) == self.value = other.value
Sibling_eq(self, other) ==
    LET n == IF Len(self.elems) < Len(other.elems)
             THEN Len(self.elems) ELSE Len(other.elems)
        eq(a, b) == IF IsTerm(a) /\ IsTerm(b) THEN Term_eq(a, b)
                    ELSE IF ~IsTerm(a) /\ ~IsTerm(b) THEN Sibling_eq(a, b)
                    ELSE FALSE
    IN  /\ self.index = other.index
        /\ \A i \in 1..n : eq(self.elems[i], other.elems[i])

\* ---------------------------------------------------------- Sibling.flatten
RECURSIVE Sibling_flatten(_)

\* Sibling.flatten: the group itself comes first; every element that is not a
\* Term is flattened, its groups are appended, and its place is given to
\* elems[0].  The groups returned are the objects themselves, so they are
\* seen as the assignments left them.
Sibling_flatten(self) ==
    LET elems == self.elems
        subs == [i \in 1..Len(elems) |->
                    IF IsTerm(elems[i]) THEN <<>> ELSE Sibling_flatten(elems[i])]
        elems0 == IF IsTerm(elems[1]) THEN elems[1] ELSE subs[1][1]
        left == [i \in 1..Len(elems) |->
                    IF IsTerm(elems[i]) THEN elems[i] ELSE elems0]
    IN  <<[self EXCEPT !.elems = left]>> \o Concat(subs)

\* ---------------------------------------------------------------- Ord.to_dag
\* Nodes are named by their Term; `children` maps every Node created so far
\* to its list of children.
NewNode(children, name) == (name :> <<>>) @@ children

\* Node.add_children for every node of `last`.
add_children(children, last, new_first) ==
    [n \in DOMAIN children |->
        children[n] \o
        Concat([i \in 1..Len(last) |->
                   IF last[i] = n THEN new_first ELSE <<>>])]

RECURSIVE construct_graph(_, _)
RECURSIVE list_graph(_, _, _)
RECURSIVE Ord_loop(_, _, _)

\* The inner loop of _construct_graph over the members of a list, from
\* member i on: st is [first, last, children] so far.
list_graph(elem, i, st) ==
    IF i > Len(elem.elems) THEN st
    ELSE LET sub_e == elem.elems[i]
         IN  IF IsTerm(sub_e)
             THEN list_graph(elem, i + 1,
                     [first |-> Append(st.first, sub_e.name),
                      last |-> Append(st.last, sub_e.name),
                      children |-> NewNode(st.children, sub_e.name)])
             ELSE LET g == construct_graph(sub_e, st.children)
                  IN  list_graph(elem, i + 1,
                         [first |-> st.first \o g.first,
                          last |-> st.last \o g.last,
                          children |-> g.children])

\* new_first, new_last of one element of an Ord.
elem_graph(elem, children) ==
    CASE elem.type = "Term" ->
            [first |-> <<elem.name>>, last |-> <<elem.name>>,
             children |-> NewNode(children, elem.name)]
      [] elem.type = "Ord" -> construct_graph(elem, children)
      [] OTHER ->
            list_graph(elem, 1,
                [first |-> <<>>, last |-> <<>>, children |-> children])

\* The loop of _construct_graph from element i on.
Ord_loop(elems, i, st) ==
    IF i > Len(elems) THEN st
    ELSE LET g == elem_graph(elems[i], st.children)
         IN  Ord_loop(elems, i + 1,
                [first |-> IF st.first = <<>> THEN g.first ELSE st.first,
                 last |-> g.last,
                 children |-> add_children(g.children, st.last, g.first)])

\* Ord._construct_graph: (first, last), and the children it gave the nodes.
construct_graph(self, children) ==
    Ord_loop(self.elems, 1,
        [first |-> <<>>, last |-> <<>>, children |-> children])

\* A defaultdict(set) read at a key.
Get(d, k) == IF k \in DOMAIN d THEN d[k] ELSE {}

RECURSIVE Node_to_dag(_, _)
RECURSIVE Node_to_dag_loop(_, _, _, _)

\* The loop of Node.to_dag from child i on: the edge to the child is added,
\* then the child's own dict replaces the entries it has.
Node_to_dag_loop(name, children, i, ret) ==
    IF i > Len(children[name]) THEN ret
    ELSE LET c == children[name][i]
             added == (name :> (Get(ret, name) \cup {c})) @@ ret
         IN  Node_to_dag_loop(name, children, i + 1,
                 Node_to_dag(c, children) @@ added)

Node_to_dag(name, children) == Node_to_dag_loop(name, children, 1, <<>>)

\* ret[term_name].update(children) for every item of a dict.
MergeDag(ret, d) ==
    [k \in DOMAIN ret \cup DOMAIN d |-> Get(ret, k) \cup Get(d, k)]

RECURSIVE Ord_to_dag_loop(_, _, _, _)
Ord_to_dag_loop(nodes, children, i, ret) ==
    IF i > Len(nodes) THEN ret
    ELSE Ord_to_dag_loop(nodes, children, i + 1,
             MergeDag(ret, Node_to_dag(nodes[i], children)))

\* Ord.to_dag.
Ord_to_dag(self) ==
    LET g == construct_graph(self, <<>>)
    IN  Ord_to_dag_loop(g.first, g.children, 1, <<>>)

\* ------------------------------------------------- the constraints machine
CArgs(k) == SubSeq(cstack, Len(cstack) - k + 1, Len(cstack))
CBelow(k) == SubSeq(cstack, 1, Len(cstack) - k)
CRoom == cphase = "build" /\ cterms + ccalls < MaxCSize

\* Term('<name>') is written.
PushTerm ==
    /\ CRoom
    /\ cstack' = Append(cstack, Term(cterms + 1))
    /\ cterms' = cterms + 1
    /\ UNCHANGED <<ccalls, cphase, cexpr, dag, flattened>>
    /\ UNCHANGED <<treeVars, rVars, oVars>>

\* Sibling(index, *args) with the last k values, Terms and Siblings, as args.
CallSibling(index, k) ==
    /\ CRoom
    /\ k \in 0..Len(cstack)
    /\ \A i \in 1..k : CArgs(k)[i].type \in {"Term", "Sibling"}
    /\ cstack' = Append(CBelow(k), Sibling(index, CArgs(k)))
    /\ ccalls' = ccalls + 1
    /\ UNCHANGED <<cterms, cphase, cexpr, dag, flattened>>
    /\ UNCHANGED <<treeVars, rVars, oVars>>

\* Ord(*args) with the last k values, Terms, Ords and lists, as args.
CallOrd(k) ==
    /\ CRoom
    /\ k \in 0..Len(cstack)
    /\ \A i \in 1..k : CArgs(k)[i].type \in {"Term", "Ord", "list"}
    /\ cstack' = Append(CBelow(k), Ord(CArgs(k)))
    /\ ccalls' = ccalls + 1
    /\ UNCHANGED <<cterms, cphase, cexpr, dag, flattened>>
    /\ UNCHANGED <<treeVars, rVars, oVars>>

\* [args] with the last k values, Terms and Ords, as members.
MakeList(k) ==
    /\ CRoom
    /\ k \in 0..Len(cstack)
    /\ \A i \in 1..k : CArgs(k)[i].type \in {"Term", "Ord"}
    /\ cstack' = Append(CBelow(k), List(CArgs(k)))
    /\ ccalls' = ccalls + 1
    /\ UNCHANGED <<cterms, cphase, cexpr, dag, flattened>>
    /\ UNCHANGED <<treeVars, rVars, oVars>>

\* ord.to_dag() on the one Ord that has been built.
ToDag ==
    /\ cphase = "build"
    /\ Len(cstack) = 1
    /\ cstack[1].type = "Ord"
    /\ cexpr' = cstack[1]
    /\ dag' = Ord_to_dag(cstack[1])
    /\ cphase' = "dag"
    /\ UNCHANGED <<cstack, cterms, ccalls, flattened>>
    /\ UNCHANGED <<treeVars, rVars, oVars>>

\* sibling.flatten() on the one Sibling that has been built; the call leaves
\* its assignments in the group.
Flatten ==
    /\ cphase = "build"
    /\ Len(cstack) = 1
    /\ cstack[1].type = "Sibling"
    /\ cexpr' = cstack[1]
    /\ flattened' = Sibling_flatten(cstack[1])
    /\ cstack' = <<Sibling_flatten(cstack[1])[1]>>
    /\ cphase' = "flattened"
    /\ UNCHANGED <<cterms, ccalls, dag>>
    /\ UNCHANGED <<treeVars, rVars, oVars>>

ConstraintsNext ==
    \/ PushTerm
    \/ \E index \in SibIndices, k \in 0..MaxCSize : CallSibling(index, k)
    \/ \E k \in 0..MaxCSize : CallOrd(k)
    \/ \E k \in 0..MaxCSize : MakeList(k)
    \/ ToDag
    \/ Flatten

ConstraintsSpec == Init /\ [][ConstraintsNext]_vars

\* ------------------------------------------------------------------- C11
\* The names an expression starts with and ends with, and its precedence
\* edges: those of its members, and for an Ord one edge from every last name
\* of a member to every first name of the next member.
RECURSIVE RefFirst(_)
RECURSIVE RefLast(_)
RECURSIVE RefEdges(_)
RefFirst(e) ==
    CASE e.type = "Term" -> {e.name}
      [] e.type = "Ord" -> IF e.elems = <<>> THEN {} ELSE RefFirst(e.elems[1])
      [] OTHER -> UNION {RefFirst(e.elems[i]) : i \in 1..Len(e.elems)}
RefLast(e) ==
    CASE e.type = "Term" -> {e.name}
      [] e.type = "Ord" ->
            IF e.elems = <<>> THEN {} ELSE RefLast(e.elems[Len(e.elems)])
      [] OTHER -> UNION {RefLast(e.elems[i]) : i \in 1..Len(e.elems)}
RefEdges(e) ==
    IF e.type = "Term" THEN {}
    ELSE UNION {RefEdges(e.elems[i]) : i \in 1..Len(e.elems)}
         \cup (IF e.type = "Ord"
               THEN UNION {RefLast(e.elems[i]) \X RefFirst(e.elems[i + 1]) :
                             i \in 1..(Len(e.elems) - 1)}
               ELSE {})

DagEdges(d) == UNION {{<<u, v>> : v \in d[u]} : u \in DOMAIN d}

\* C11: Ord.to_dag returns exactly the reference precedence graph of the
\* expression, and no name without a successor is a key of the result.
C11_ToDagIsReference ==
    cphase = "dag" =>
        /\ DagEdges(dag) = RefEdges(cexpr)
        /\ \A k \in DOMAIN dag : dag[k] # {}

\* ------------------------------------------------------------------- C12
\* The Siblings nested in a group, at any depth, as (parent index, group).
RECURSIVE NestedGroups(_)
NestedGroups(s) ==
    UNION {IF IsTerm(s.elems[i]) THEN {}
           ELSE {<<s.index, s.elems[i]>>} \cup NestedGroups(s.elems[i]) :
           i \in 1..Len(s.elems)}

\* The Terms of a group and of the groups nested in it, as written.
RECURSIVE SibTerms(_)
SibTerms(s) ==
    Concat([i \in 1..Len(s.elems) |->
               IF IsTerm(s.elems[i]) THEN <<s.elems[i]>>
               ELSE SibTerms(s.elems[i])])

\* C12: flattening a group whose nested groups all have their parent's index
\* yields a single group, equal to the group of all the Terms inlined.
C12_SameIndexInlined ==
    (/\ cphase = "flattened"
     /\ NestedGroups(cexpr) # {}
     /\ \A g \in NestedGroups(cexpr) : g[2].index = g[1] /\ g[2].elems # <<>>)
    => /\ Len(flattened) = 1
       /\ Sibling_eq(flattened[1], Sibling(cexpr.index, SibTerms(cexpr)))

\* ------------------------------------------------------------------- C13
\* The first Term of a group (the link to it).
RECURSIVE FirstTerm(_)
FirstTerm(s) ==
    IF IsTerm(s.elems[1]) THEN s.elems[1] ELSE FirstTerm(s.elems[1])

\* The outer group with every nested group replaced by its link, followed by
\* the nested groups, flattened the same way, in order.
RECURSIVE RefFlatten(_)
RefFlatten(s) ==
    <<Sibling(s.index,
        [i \in 1..Len(s.elems) |->
            IF IsTerm(s.elems[i]) THEN s.elems[i] ELSE FirstTerm(s.elems[i])])>>
    \o Concat([i \in 1..Len(s.elems) |->
                  IF IsTerm(s.elems[i]) THEN <<>> ELSE RefFlatten(s.elems[i])])

\* C13: flattening a group whose nested groups have an index other than
\* their parent's returns the outer group with each nested group replaced by
\* that group's first Term, then the nested groups in order, and no returned
\* group contains a group.
C13_DifferentIndexLinked ==
    (/\ cphase = "flattened"
     /\ NestedGroups(cexpr) # {}
     /\ \A g \in NestedGroups(cexpr) : g[2].index # g[1] /\ g[2].elems # <<>>)
    => /\ flattened = RefFlatten(cexpr)
       /\ \A i \in 1..Len(flattened) :
            \A j \in 1..Len(flattened[i].elems) : IsTerm(flattened[i].elems[j])

\* ======================================= operast.operator, operast.thompson
\* Size of a regex: the number of bare elements and operator constructors
\* written.
MaxRSize == 3
\* The largest count written in a Repeat.
MaxCount == 2
\* The length of the longest input sequence.
MaxInput == 2

\* The values of the opaque element type T that are written.
Alphabet == {"a", "b"}
Counts == (0 - 1)..MaxCount

\* ------------------------------------------------------------- instructions
Unit(unit) == [inst |-> "Unit", unit |-> unit]
UnitList(units) == [inst |-> "UnitList", units |-> units]
AnyUnit == [inst |-> "AnyUnit"]
Match == [inst |-> "Match"]
Jump(goto) == [inst |-> "Jump", goto |-> goto]
\* The Split operator.py constructs and patches has the fields t1 and t2;
\* thompson_vm appends the first and then the second.
Split(t1, t2) == [inst |-> "Split", t1 |-> t1, t2 |-> t2]

\* ---------------------------------------------------------------- operators
\* A bare element of a sequence, and the operators as their constructors
\* leave them.
Elem(v) == [op |-> "Elem", v |-> v]
Quantifier(cls, elems, greedy) ==
    [op |-> cls, elems |-> elems, greedy |-> greedy]
Alt(left, right) == [op |-> "Alt", left |-> left, right |-> right]
Lst(elems) == [op |-> "Lst", elems |-> elems]
Dot == [op |-> "Dot"]
Repeat(elems, n) == [op |-> "Repeat", elems |-> elems, count |-> n]

QuantifierClasses == {"Plus", "Star", "QMark"}

\* ------------------------------------------------------------------ compile
\* The state of one compilation: the ProgramCounter, the instructions
\* yielded so far, and pc.val as it was when each of them was yielded.
NewCompilation == [pc |-> 0, out |-> <<>>, at |-> <<>>]

\* ProgramCounter.inc
inc(st) == [st EXCEPT !.pc = @ + 1]

\* yield inst
yield(st, inst) ==
    [st EXCEPT !.out = Append(@, inst), !.at = Append(@, st.pc)]

\* A compilation state whose value has been computed: reading the counter
\* makes TLC evaluate the state before the compilation goes on from it.
Evaluated(st) == st.pc >= 0

RECURSIVE compile_elements(_, _)
RECURSIVE Repeat_loop(_, _, _)

\* Plus.compile that does not count its Split.
Plus_compile_no_inc(self, st) ==
    LET start == st.pc
        body == compile_elements(self.elems, st)
    IN  IF self.greedy THEN yield(body, Split(start, body.pc))
        ELSE yield(body, Split(body.pc, start))

\* Plus.compile
Plus_compile(self, st) ==
    LET start == st.pc
        body == compile_elements(self.elems, st)
        s1 == inc(body)
    IN  IF self.greedy THEN yield(s1, Split(start, s1.pc))
        ELSE yield(s1, Split(s1.pc, start))

\* Star.compile that patches the same target whatever greedy is.
Star_compile_t2(self, st) ==
    LET start == st.pc
        s1 == inc(st)
        split == Len(st.out) + 1
        s2 == yield(s1, Split(s1.pc, s1.pc))
        body == compile_elements(self.elems, s2)
        s3 == inc(body)
        s4 == [s3 EXCEPT !.out[split].t2 = s3.pc]
    IN  yield(s4, Jump(start))

\* Star.compile: the Split is yielded with both targets on the body and one
\* of them is assigned once the body and the Jump are counted.
Star_compile(self, st) ==
    LET start == st.pc
        s1 == inc(st)
        split == Len(st.out) + 1
        s2 == yield(s1, Split(s1.pc, s1.pc))
        body == compile_elements(self.elems, s2)
        s3 == inc(body)
        s4 == IF self.greedy
              THEN [s3 EXCEPT !.out[split].t2 = s3.pc]
              ELSE [s3 EXCEPT !.out[split].t1 = s3.pc]
    IN  yield(s4, Jump(start))

\* QMark.compile whose Split, when not greedy, never enters the body.
QMark_compile_lazy_skips(self, st) ==
    LET s1 == inc(st)
        split == Len(st.out) + 1
        s2 == yield(s1, Split(s1.pc, s1.pc))
        body == compile_elements(self.elems, s2)
    IN  IF self.greedy
        THEN [body EXCEPT !.out[split].t2 = body.pc]
        ELSE [body EXCEPT !.out[split].t1 = body.pc,
                          !.out[split].t2 = body.pc]

\* QMark.compile
QMark_compile(self, st) ==
    LET s1 == inc(st)
        split == Len(st.out) + 1
        s2 == yield(s1, Split(s1.pc, s1.pc))
        body == compile_elements(self.elems, s2)
    IN  IF self.greedy
        THEN [body EXCEPT !.out[split].t2 = body.pc]
        ELSE [body EXCEPT !.out[split].t1 = body.pc]

\* Alt.compile whose Jump keeps the target it was yielded with.
Alt_compile_no_patch(self, st) ==
    LET s1 == inc(st)
        split == Len(st.out) + 1
        s2 == yield(s1, Split(s1.pc, s1.pc))
        left == compile_elements(self.left, s2)
        s3 == inc(left)
        s4 == yield(s3, Jump(s3.pc))
        s5 == [s4 EXCEPT !.out[split].t2 = s4.pc]
    IN  compile_elements(self.right, s5)

\* Alt.compile
Alt_compile(self, st) ==
    LET s1 == inc(st)
        split == Len(st.out) + 1
        s2 == yield(s1, Split(s1.pc, s1.pc))
        left == compile_elements(self.left, s2)
        s3 == inc(left)
        jump == Len(left.out) + 1
        s4 == yield(s3, Jump(s3.pc))
        s5 == [s4 EXCEPT !.out[split].t2 = s4.pc]
        right == compile_elements(self.right, s5)
    IN  [right EXCEPT !.out[jump].goto = right.pc]

\* Lst.compile
Lst_compile(self, st) == yield(inc(st), UnitList(self.elems))

\* Dot.compile
Dot_compile(self, st) == yield(inc(st), AnyUnit)

\* for _ in range(n): yield from compile_elements(self.elems, pc)
Repeat_loop(self, n, st) ==
    IF n <= 0 \/ ~Evaluated(st) THEN st
    ELSE Repeat_loop(self, n - 1, compile_elements(self.elems, st))

\* Repeat.compile that starts every copy of the body from the counter the
\* first copy started from.
Repeat_compile_same_pc(self, st) ==
    LET once == compile_elements(self.elems, st)
        each == SubSeq(once.out, Len(st.out) + 1, Len(once.out))
        ats == SubSeq(once.at, Len(st.at) + 1, Len(once.at))
        n == IF self.count < 0 THEN 0 ELSE self.count
    IN  [pc |-> st.pc + n * (once.pc - st.pc),
         out |-> st.out \o Concat([i \in 1..n |-> each]),
         at |-> st.at \o Concat([i \in 1..n |-> ats])]

\* Repeat.compile
Repeat_compile(self, st) == Repeat_loop(self, self.count, st)

\* Op.compile, by class.
Op_compile(self, st) ==
    CASE self.op = "Plus"   -> Plus_compile(self, st)
      [] self.op = "Star"   -> Star_compile(self, st)
      [] self.op = "QMark"  -> QMark_compile(self, st)
      [] self.op = "Alt"    -> Alt_compile(self, st)
      [] self.op = "Lst"    -> Lst_compile(self, st)
      [] self.op = "Dot"    -> Dot_compile(self, st)
      [] self.op = "Repeat" -> Repeat_compile(self, st)

\* compile_elements: an Op compiles itself, anything else is counted and
\* becomes a Unit.
compile_elements(es, st) ==
    IF es = <<>> \/ ~Evaluated(st) THEN st
    ELSE LET e == Head(es)
         IN  compile_elements(Tail(es),
                 IF e.op = "Elem" THEN yield(inc(st), Unit(e.v))
                 ELSE Op_compile(e, st))

\* compile_regex: the instructions of the sequence, then Match.
\* compile_regex that appends no Match.
compile_regex_no_match(seq) == compile_elements(seq, NewCompilation)

\* compile_regex
compile_regex(seq) == yield(compile_elements(seq, NewCompilation), Match)

\* -------------------------------------------------------------- thompson_vm
\* The longest program thompson_vm is called with.
MaxProgram == 8

\* The sentinel the driver appends to the sequence.
NO_MATCH == "__NO_MATCH"
Items(seq) == Append(seq, NO_MATCH)

\* The UnitEq passed to thompson_vm (str.__eq__ in the tests).
ident(a, b) == a = b

\* Unit that advances on any item that is not the sentinel.
Unit_advances_any(inst, it) == it # NO_MATCH

\* Unit: the thread goes on iff the item is not the sentinel and equals the
\* unit.
Unit_advances(inst, it) == it # NO_MATCH /\ ident(it, inst.unit)

\* UnitList: iff the item is not the sentinel and equals one of the units.
UnitList_advances(inst, it) ==
    it # NO_MATCH /\ \E i \in 1..Len(inst.units) : ident(it, inst.units[i])

\* program[program_counter], as a Python list is indexed: a negative index
\* counts from the end, and an index outside the list raises IndexError.
fetch(prog, pc) ==
    IF pc >= 0 /\ pc < Len(prog) THEN prog[pc + 1]
    ELSE IF pc < 0 /\ 0 - pc <= Len(prog) THEN prog[Len(prog) + pc + 1]
    ELSE [inst |-> "IndexError"]

\* What is recorded of a call: the instructions visited, the items ident was
\* called with, the longest c_list, and the program counters put in c_list.
NewCall == [visits |-> 0, compared |-> {}, longest |-> 1, placed |-> {0}]

\* A visit of a Unit or UnitList: ident is called unless the item is the
\* sentinel.
visit_unit(h, it) ==
    [h EXCEPT !.visits = @ + 1,
              !.compared = IF it # NO_MATCH THEN @ \cup {it} ELSE @]

\* A visit of any other instruction.
visit(h) == [h EXCEPT !.visits = @ + 1]

\* The inner loop with a Match that only counts at the end of the sequence.
RECURSIVE vm_item_anchored(_, _, _, _, _, _)
vm_item_anchored(prog, it, cl, i, nl, h) ==
    IF i > Len(cl)
    THEN [status |-> "next", c_list |-> cl, n_list |-> nl, h |-> h]
    ELSE LET program_counter == cl[i]
             inst == fetch(prog, program_counter)
         IN  CASE inst.inst = "Unit" ->
                    vm_item_anchored(prog, it, cl, i + 1,
                        IF Unit_advances(inst, it)
                        THEN Append(nl, program_counter + 1) ELSE nl,
                        visit_unit(h, it))
               [] inst.inst = "UnitList" ->
                    vm_item_anchored(prog, it, cl, i + 1,
                        IF UnitList_advances(inst, it)
                        THEN Append(nl, program_counter + 1) ELSE nl,
                        visit_unit(h, it))
               [] inst.inst = "AnyUnit" ->
                    vm_item_anchored(prog, it, cl, i + 1,
                        Append(nl, program_counter + 1), visit(h))
               [] inst.inst = "Match" ->
                    IF it = NO_MATCH
                    THEN [status |-> "match", c_list |-> cl, n_list |-> nl,
                          h |-> visit(h)]
                    ELSE vm_item_anchored(prog, it, cl, i + 1, nl, visit(h))
               [] inst.inst = "Jump" ->
                    vm_item_anchored(prog, it, Append(cl, inst.goto), i + 1,
                        nl, visit(h))
               [] inst.inst = "Split" ->
                    vm_item_anchored(prog, it, cl \o <<inst.t1, inst.t2>>,
                        i + 1, nl, visit(h))
               [] inst.inst = "IndexError" ->
                    [status |-> "raise", c_list |-> cl, n_list |-> nl,
                     h |-> h]

\* The inner loop of thompson_vm for one item, from index i of c_list on.
\* Jump and Split append to the c_list being iterated.
RECURSIVE vm_item(_, _, _, _, _, _)
vm_item(prog, it, cl, i, nl, h) ==
    IF i > Len(cl)
    THEN [status |-> "next", c_list |-> cl, n_list |-> nl, h |-> h]
    ELSE LET program_counter == cl[i]
             inst == fetch(prog, program_counter)
         IN  CASE inst.inst = "Unit" ->
                    vm_item(prog, it, cl, i + 1,
                        IF Unit_advances(inst, it)
                        THEN Append(nl, program_counter + 1) ELSE nl,
                        visit_unit(h, it))
               [] inst.inst = "UnitList" ->
                    vm_item(prog, it, cl, i + 1,
                        IF UnitList_advances(inst, it)
                        THEN Append(nl, program_counter + 1) ELSE nl,
                        visit_unit(h, it))
               [] inst.inst = "AnyUnit" ->
                    vm_item(prog, it, cl, i + 1,
                        Append(nl, program_counter + 1), visit(h))
               [] inst.inst = "Match" ->
                    [status |-> "match", c_list |-> cl, n_list |-> nl,
                     h |-> visit(h)]
               [] inst.inst = "Jump" ->
                    vm_item(prog, it, Append(cl, inst.goto), i + 1, nl,
                        visit(h))
               [] inst.inst = "Split" ->
                    vm_item(prog, it, cl \o <<inst.t1, inst.t2>>, i + 1, nl,
                        visit(h))
               [] inst.inst = "IndexError" ->
                    [status |-> "raise", c_list |-> cl, n_list |-> nl,
                     h |-> h]

\* The program counters a visit of pc appends to c_list.
appended(prog, pc) ==
    LET inst == fetch(prog, pc)
    IN  CASE inst.inst = "Jump" -> {inst.goto}
          [] inst.inst = "Split" -> {inst.t1, inst.t2}
          [] OTHER -> {}

\* The program counters that get into c_list once those of pcs are in it.
RECURSIVE listed(_, _)
listed(prog, pcs) ==
    LET more == pcs \cup UNION {appended(prog, pc) : pc \in pcs}
    IN  IF more = pcs THEN pcs ELSE listed(prog, more)

\* The loop over c_list has no end: c_list is visited in the order it is
\* appended to, so a Match (or an index out of range) that gets into it is
\* reached and the call ends there; when none does, a program counter that
\* gets itself appended again by the Jumps and Splits that follow it does so
\* without end.
never_ends(prog, cl) ==
    LET pcs == listed(prog, {cl[i] : i \in 1..Len(cl)})
    IN  /\ \A pc \in pcs : fetch(prog, pc).inst \notin {"Match", "IndexError"}
        /\ \E pc \in pcs : pc \in listed(prog, appended(prog, pc))

\* The c_list of a pass, as it is when the pass is over, is recorded.
pass(h, cl) ==
    [h EXCEPT !.longest = IF Len(cl) > @ THEN Len(cl) ELSE @,
              !.placed = @ \cup {cl[k] : k \in 1..Len(cl)}]

\* thompson_vm that goes on to the threads left after the sentinel.
RECURSIVE vm_loop_after_sentinel(_, _, _, _, _)
vm_loop_after_sentinel(prog, seq, i, cl, h) ==
    IF never_ends(prog, cl)
    THEN [status |-> "hang", item |-> i, c_list |-> cl, h |-> pass(h, cl)]
    ELSE LET it == IF i > Len(seq) THEN NO_MATCH ELSE seq[i]
             r == vm_item(prog, it, cl, 1, <<>>, h)
             end(status) == [status |-> status, item |-> i,
                             c_list |-> r.c_list, h |-> pass(r.h, r.c_list)]
         IN  IF r.status = "match" THEN end("True")
             ELSE IF r.status = "raise" THEN end("IndexError")
             ELSE IF i = Len(seq) + 2 THEN end("False")
             ELSE vm_loop_after_sentinel(prog, seq, i + 1, r.n_list,
                                         pass(r.h, r.c_list))

\* thompson_vm from item i of the sequence on, with the c_list of that item.
\* status is what the call does: it returns True, returns False, raises, or
\* hangs in the loop over c_list.
RECURSIVE vm_loop(_, _, _, _, _)
vm_loop(prog, seq, i, cl, h) ==
    IF never_ends(prog, cl)
    THEN [status |-> "hang", item |-> i, c_list |-> cl, h |-> pass(h, cl)]
    ELSE LET r == vm_item(prog, Items(seq)[i], cl, 1, <<>>, h)
             end(status) == [status |-> status, item |-> i,
                             c_list |-> r.c_list, h |-> pass(r.h, r.c_list)]
         IN  IF r.status = "match" THEN end("True")
             ELSE IF r.status = "raise" THEN end("IndexError")
             ELSE IF i = Len(seq) + 1 THEN end("False")
             ELSE vm_loop(prog, seq, i + 1, r.n_list, pass(r.h, r.c_list))

thompson_vm(prog, seq) == vm_loop(prog, seq, 1, <<0>>, NewCall)

\* The input sequences.
Sequences == UNION {[1..n -> Alphabet] : n \in 0..MaxInput}

\* ------------------------------------------------------ the regex machine
RArgs(k) == SubSeq(rstack, Len(rstack) - k + 1, Len(rstack))
RBelow(k) == SubSeq(rstack, 1, Len(rstack) - k)
RRoom == rphase = "build" /\ rsize < MaxRSize
vmVars == <<program, emitted, sequence, item, c_list, visits, returned,
           longest, compared, placed>>

\* A bare element is written.
PushElem(v) ==
    /\ RRoom
    /\ rstack' = Append(rstack, Elem(v))
    /\ rsize' = rsize + 1
    /\ UNCHANGED <<rphase, vmVars, treeVars, cVars, oVars>>

\* Dot()
CallDot ==
    /\ RRoom
    /\ rstack' = Append(rstack, Dot)
    /\ rsize' = rsize + 1
    /\ UNCHANGED <<rphase, vmVars, treeVars, cVars, oVars>>

\* Lst(e, *es) with the last k values, bare elements, as arguments.
CallLst(k) ==
    /\ RRoom
    /\ k \in 1..Len(rstack)
    /\ \A i \in 1..k : RArgs(k)[i].op = "Elem"
    /\ rstack' = Append(RBelow(k), Lst([i \in 1..k |-> RArgs(k)[i].v]))
    /\ rsize' = rsize + 1
    /\ UNCHANGED <<rphase, vmVars, treeVars, cVars, oVars>>

\* Plus, Star or QMark (e, *es, greedy=greedy) with the last k values.
CallQuantifier(cls, k, greedy) ==
    /\ RRoom
    /\ k \in 1..Len(rstack)
    /\ rstack' = Append(RBelow(k), Quantifier(cls, RArgs(k), greedy))
    /\ rsize' = rsize + 1
    /\ UNCHANGED <<rphase, vmVars, treeVars, cVars, oVars>>

\* Alt(left, right): the last k values are split into the two lists after
\* the first j of them.
CallAlt(k, j) ==
    /\ RRoom
    /\ k \in 0..Len(rstack)
    /\ j \in 0..k
    /\ rstack' = Append(RBelow(k),
                    Alt(SubSeq(RArgs(k), 1, j), SubSeq(RArgs(k), j + 1, k)))
    /\ rsize' = rsize + 1
    /\ UNCHANGED <<rphase, vmVars, treeVars, cVars, oVars>>

\* Repeat(e, *es, count=n) with the last k values.  __init__ stores count as
\* it is given.
CallRepeat(k, n) ==
    /\ RRoom
    /\ k \in 1..Len(rstack)
    /\ rstack' = Append(RBelow(k), Repeat(RArgs(k), n))
    /\ rsize' = rsize + 1
    /\ UNCHANGED <<rphase, vmVars, treeVars, cVars, oVars>>

\* compile_regex(seq) on the sequence written.
CompileRegex ==
    /\ rphase = "build"
    /\ \E c \in {compile_regex(rstack)} :
           /\ program' = c.out
           /\ emitted' = c.at
    /\ rphase' = "compiled"
    /\ UNCHANGED <<rstack, rsize, sequence, item, c_list, visits, returned,
                   longest, compared, placed, treeVars, cVars, oVars>>

\* thompson_vm(program, sequence, ident) is called: item and c_list are
\* left as they are when the call returns or hangs.
CallThompsonVm(seq) ==
    /\ rphase = "compiled"
    /\ Len(program) <= MaxProgram
    /\ \E r \in {thompson_vm(program, seq)} :
           /\ sequence' = seq
           /\ item' = r.item
           /\ c_list' = r.c_list
           /\ visits' = r.h.visits
           /\ longest' = r.h.longest
           /\ compared' = r.h.compared
           /\ placed' = r.h.placed
           /\ returned' = CASE r.status = "True" -> TRUE
                            [] r.status = "False" -> FALSE
                            [] OTHER -> returned
           /\ rphase' = CASE r.status = "hang" -> "hang"
                          [] r.status = "IndexError" -> "raised"
                          [] OTHER -> "done"
    /\ UNCHANGED <<rstack, rsize, program, emitted, treeVars, cVars, oVars>>

RegexNext ==
    \/ \E v \in Alphabet : PushElem(v)
    \/ CallDot
    \/ \E k \in 1..MaxRSize : CallLst(k)
    \/ \E cls \in QuantifierClasses, k \in 1..MaxRSize, greedy \in BOOLEAN :
          CallQuantifier(cls, k, greedy)
    \/ \E k \in 0..MaxRSize, j \in 0..MaxRSize : CallAlt(k, j)
    \/ \E k \in 1..MaxRSize, n \in Counts : CallRepeat(k, n)
    \/ CompileRegex
    \/ \E seq \in Sequences : CallThompsonVm(seq)

RegexSpec == Init /\ [][RegexNext]_vars

\* -------------------------------------------------- the layout of a program
Compiled == rphase = "compiled"

\* The number of instructions an element, and a sequence of elements, stand
\* for.
RECURSIVE Size(_)
RECURSIVE SeqSize(_)
Size(e) ==
    CASE e.op \in {"Elem", "Lst", "Dot"} -> 1
      [] e.op \in {"Plus", "QMark"} -> SeqSize(e.elems) + 1
      [] e.op = "Star" -> SeqSize(e.elems) + 2
      [] e.op = "Alt" -> SeqSize(e.left) + SeqSize(e.right) + 2
      [] e.op = "Repeat" ->
            (IF e.count < 0 THEN 0 ELSE e.count) * SeqSize(e.elems)
SeqSize(es) == IF es = <<>> THEN 0 ELSE Size(Head(es)) + SeqSize(Tail(es))

\* The instruction at index i of the program (indices start at 0).
At(i) == program[i + 1]

\* The operators of a sequence, at any depth, of the classes ops.
RECURSIVE Ops(_, _)
Ops(es, ops) ==
    UNION {LET e == es[i]
               below == CASE e.op \in {"Elem", "Lst", "Dot"} -> {}
                          [] e.op = "Alt" ->
                                Ops(e.left, ops) \cup Ops(e.right, ops)
                          [] OTHER -> Ops(e.elems, ops)
           IN  (IF e.op \in ops THEN {e} ELSE {}) \cup below :
           i \in 1..Len(es)}

\* ------------------------------------------------------------------- C14
\* C14: the counter is incremented once for every Unit, UnitList, AnyUnit,
\* Split and Jump and never for Match: the k-th instruction (from 0) is
\* yielded with the counter at k + 1, Match with the counter at the number of
\* the instructions before it; the program has one Match, its last
\* instruction.
C14_CounterCountsInstructions ==
    Compiled =>
        /\ Len(emitted) = Len(program)
        /\ \A k \in 0..(Len(program) - 2) :
              At(k).inst # "Match" /\ emitted[k + 1] = k + 1
        /\ program[Len(program)] = Match
        /\ emitted[Len(program)] = Len(program) - 1

C14_Witness ==
    /\ Compiled
    /\ {"Unit", "AnyUnit", "Split", "Jump", "Match"} \subseteq
          {program[i].inst : i \in 1..Len(program)}

\* ------------------------------------------------------------------- C15
\* Every quantifier of the sequence es, whose code starts at index base, has
\* its Split (and for Star its Jump) where and as the rule says.
RECURSIVE QuantifiersOK(_, _)
RECURSIVE QuantifierOK(_, _)
RECURSIVE RepeatedOK(_, _, _)
QuantifierOK(e, base) ==
    CASE e.op \in {"Elem", "Lst", "Dot"} -> TRUE
      [] e.op = "Plus" ->
            LET split == base + SeqSize(e.elems)
            IN  /\ QuantifiersOK(e.elems, base)
                /\ At(split) = IF e.greedy THEN Split(base, split + 1)
                               ELSE Split(split + 1, base)
      [] e.op = "Star" ->
            LET jump == base + 1 + SeqSize(e.elems)
            IN  /\ QuantifiersOK(e.elems, base + 1)
                /\ At(base) = IF e.greedy THEN Split(base + 1, jump + 1)
                              ELSE Split(jump + 1, base + 1)
                /\ At(jump) = Jump(base)
      [] e.op = "QMark" ->
            LET after == base + 1 + SeqSize(e.elems)
            IN  /\ QuantifiersOK(e.elems, base + 1)
                /\ At(base) = IF e.greedy THEN Split(base + 1, after)
                              ELSE Split(after, base + 1)
      [] e.op = "Alt" ->
            /\ QuantifiersOK(e.left, base + 1)
            /\ QuantifiersOK(e.right, base + SeqSize(e.left) + 2)
      [] e.op = "Repeat" -> RepeatedOK(e, e.count, base)
RepeatedOK(e, n, base) ==
    n <= 0 \/ (/\ QuantifiersOK(e.elems, base)
               /\ RepeatedOK(e, n - 1, base + SeqSize(e.elems)))
QuantifiersOK(es, base) ==
    es = <<>> \/ (/\ QuantifierOK(Head(es), base)
                  /\ QuantifiersOK(Tail(es), base + Size(Head(es))))

RECURSIVE AltsOK(_, _)
RECURSIVE AltOK(_, _)
RECURSIVE RepeatedAltsOK(_, _, _)
AltOK(e, base) ==
    CASE e.op \in {"Elem", "Lst", "Dot"} -> TRUE
      [] e.op \in {"Plus"} -> AltsOK(e.elems, base)
      [] e.op \in {"Star", "QMark"} -> AltsOK(e.elems, base + 1)
      [] e.op = "Alt" ->
            LET jump == base + 1 + SeqSize(e.left)
            IN  /\ At(base) = Split(base + 1, jump + 1)
                /\ AltsOK(e.left, base + 1)
                /\ At(jump) = Jump(jump + 1 + SeqSize(e.right))
                /\ AltsOK(e.right, jump + 1)
      [] e.op = "Repeat" -> RepeatedAltsOK(e, e.count, base)
RepeatedAltsOK(e, n, base) ==
    n <= 0 \/ (/\ AltsOK(e.elems, base)
               /\ RepeatedAltsOK(e, n - 1, base + SeqSize(e.elems)))
AltsOK(es, base) ==
    es = <<>> \/ (/\ AltOK(Head(es), base)
                  /\ AltsOK(Tail(es), base + Size(Head(es))))

RECURSIVE Unrolled(_)
RECURSIVE Times(_, _)
Times(es, n) == IF n <= 0 THEN <<>> ELSE es \o Times(es, n - 1)
Unrolled(es) ==
    Concat([i \in 1..Len(es) |->
        LET e == es[i]
        IN  CASE e.op \in {"Elem", "Lst", "Dot"} -> <<e>>
              [] e.op = "Alt" ->
                    <<Alt(Unrolled(e.left), Unrolled(e.right))>>
              [] e.op = "Repeat" -> Times(Unrolled(e.elems), e.count)
              [] OTHER -> <<[e EXCEPT !.elems = Unrolled(e.elems)]>>])

\* C17: a sequence with Repeats of counts >= 0 compiles to the program of
\* the same sequence with each Repeat replaced by its body written count
\* times.
C17_RepeatUnrolls ==
    (Compiled /\ \A r \in Ops(rstack, {"Repeat"}) : r.count >= 0)
    => program = compile_regex(Unrolled(rstack)).out

C17_Witness ==
    /\ Compiled
    /\ \E r \in Ops(rstack, {"Repeat"}) :
          r.count >= 2 /\ Ops(r.elems, {"Star", "Alt"}) # {}
    /\ \A r \in Ops(rstack, {"Repeat"}) : r.count >= 0

\* ------------------------------------------------------------------- C18
\* C18: a Repeat with a negative count is rejected when it is constructed:
\* no Repeat that was constructed has a negative count.
C18_NegativeCountRejected ==
    \A r \in Ops(rstack, {"Repeat"}) : r.count >= 0

\* ------------------------------------------------------------------- C19
\* The language of a regex, by positions: the indices of s at which a match
\* of the sequence es that starts at an index of `starts` can end.
RECURSIVE Ends(_, _, _)
RECURSIVE EndsOf(_, _, _)
RECURSIVE LoopEnds(_, _, _, _)
RECURSIVE RepeatEnds(_, _, _, _)
Step(s, starts, ok(_)) ==
    {i + 1 : i \in {j \in starts : j < Len(s) /\ ok(s[j + 1])}}
EndsOf(e, s, starts) ==
    CASE e.op = "Elem" -> LET ok(x) == x = e.v IN Step(s, starts, ok)
      [] e.op = "Lst" ->
            LET ok(x) == \E i \in 1..Len(e.elems) : x = e.elems[i]
            IN  Step(s, starts, ok)
      [] e.op = "Dot" -> LET ok(x) == TRUE IN Step(s, starts, ok)
      [] e.op = "QMark" -> starts \cup Ends(e.elems, s, starts)
      [] e.op = "Plus" -> LoopEnds(e.elems, s, starts, {})
      [] e.op = "Star" -> starts \cup LoopEnds(e.elems, s, starts, {})
      [] e.op = "Alt" -> Ends(e.left, s, starts) \cup Ends(e.right, s, starts)
      [] e.op = "Repeat" -> RepeatEnds(e.elems, e.count, s, starts)
\* One or more matches of body in a row: acc is what is known so far, cur
\* the ends found last.
LoopEnds(body, s, cur, acc) ==
    LET nxt == Ends(body, s, cur)
    IN  IF nxt \subseteq acc THEN acc
        ELSE LoopEnds(body, s, nxt \ acc, acc \cup nxt)
RepeatEnds(body, n, s, starts) ==
    IF n <= 0 THEN starts
    ELSE RepeatEnds(body, n - 1, s, Ends(body, s, starts))
Ends(es, s, starts) ==
    IF es = <<>> THEN starts
    ELSE Ends(Tail(es), s, EndsOf(Head(es), s, starts))

\* A Star or Plus whose body can match the empty sequence.
EmptyLoop(es) ==
    \E q \in Ops(es, {"Star", "Plus"}) : 0 \in Ends(q.elems, <<>>, {0})

\* A regex the claim is about.
Regular(es) ==
    /\ ~EmptyLoop(es)
    /\ \A r \in Ops(es, {"Repeat"}) : r.count >= 0

C20_VisitsBounded ==
    rphase \in {"done", "hang"} =>
        /\ rphase # "hang"
        /\ visits <= Len(program) * (Len(sequence) + 1)

\* ------------------------------------------------------------------- C21
\* A call of thompson_vm is over: it returned, raised, or hangs.
Called == rphase \in {"done", "hang", "raised"}

\* C21: at every point of every call of thompson_vm, c_list is at most as
\* long as the program (a call that hangs appends to c_list without end).
C21_CListBounded ==
    Called => rphase # "hang" /\ longest <= Len(program)

\* ------------------------------------------------------------------- C22
\* The variant of thompson_vm that never adds a program counter to a thread
\* list that already holds it.
add_once(list, pc) ==
    IF \E k \in 1..Len(list) : list[k] = pc THEN list ELSE Append(list, pc)

RECURSIVE vm_item_dedup(_, _, _, _, _)
vm_item_dedup(prog, it, cl, i, nl) ==
    IF i > Len(cl) THEN [status |-> "next", n_list |-> nl]
    ELSE LET program_counter == cl[i]
             inst == fetch(prog, program_counter)
         IN  CASE inst.inst = "Unit" ->
                    vm_item_dedup(prog, it, cl, i + 1,
                        IF Unit_advances(inst, it)
                        THEN add_once(nl, program_counter + 1) ELSE nl)
               [] inst.inst = "UnitList" ->
                    vm_item_dedup(prog, it, cl, i + 1,
                        IF UnitList_advances(inst, it)
                        THEN add_once(nl, program_counter + 1) ELSE nl)
               [] inst.inst = "AnyUnit" ->
                    vm_item_dedup(prog, it, cl, i + 1,
                        add_once(nl, program_counter + 1))
               [] inst.inst = "Match" -> [status |-> "match", n_list |-> nl]
               [] inst.inst = "Jump" ->
                    vm_item_dedup(prog, it, add_once(cl, inst.goto), i + 1, nl)
               [] inst.inst = "Split" ->
                    vm_item_dedup(prog, it,
                        add_once(add_once(cl, inst.t1), inst.t2), i + 1, nl)
               [] inst.inst = "IndexError" ->
                    [status |-> "raise", n_list |-> nl]

RECURSIVE vm_loop_dedup(_, _, _, _)
vm_loop_dedup(prog, seq, i, cl) ==
    LET r == vm_item_dedup(prog, Items(seq)[i], cl, 1, <<>>)
    IN  IF r.status = "match" THEN "True"
        ELSE IF r.status = "raise" THEN "IndexError"
        ELSE IF i = Len(seq) + 1 THEN "False"
        ELSE vm_loop_dedup(prog, seq, i + 1, r.n_list)

thompson_vm_dedup(prog, seq) == vm_loop_dedup(prog, seq, 1, <<0>>)

\* What the call of thompson_vm did, as the variant's results are written.
Outcome ==
    CASE rphase = "hang" -> "hang"
      [] rphase = "raised" -> "IndexError"
      [] rphase = "done" /\ returned = TRUE -> "True"
      [] rphase = "done" -> "False"
      [] OTHER -> "none"

\* C22: thompson_vm and the variant without duplicates have the same outcome
\* on every program and every input: both return True, or both return False.
C22_DedupSameOutcome ==
    Called => /\ Outcome \in {"True", "False"}
              /\ thompson_vm_dedup(program, sequence) = Outcome

\* ------------------------------------------------------------------- C23
\* C23: no thread consumes the sentinel: ident is called with items of the
\* sequence only, and a call returns True only when a prefix of the sequence
\* (the whole of it at most) is in the language of the regex; so a regex
\* that needs one more item than the sequence has is rejected.
C23_SentinelNotConsumed ==
    Called =>
        /\ compared \subseteq {sequence[k] : k \in 1..Len(sequence)}
        /\ item <= Len(sequence) + 1
        /\ Outcome = "True" => Ends(rstack, sequence, {0}) # {}

\* The last pass of a call had a thread at AnyUnit and one at a Unit or
\* UnitList, and the call returned False.
C23_Witness ==
    /\ rphase = "done"
    /\ returned = FALSE
    /\ Len(sequence) >= 1
    /\ item = Len(sequence) + 1
    /\ \E k \in 1..Len(c_list) : fetch(program, c_list[k]).inst = "AnyUnit"
    /\ \E k \in 1..Len(c_list) :
          fetch(program, c_list[k]).inst \in {"Unit", "UnitList"}

RECURSIVE Flips(_)
RECURSIVE FlipsOf(_)
FlipsOf(e) ==
    CASE e.op \in QuantifierClasses ->
            {[e EXCEPT !.greedy = ~e.greedy]}
                \cup {[e EXCEPT !.elems = f] : f \in Flips(e.elems)}
      [] e.op = "Alt" ->
            {[e EXCEPT !.left = f] : f \in Flips(e.left)}
                \cup {[e EXCEPT !.right = f] : f \in Flips(e.right)}
      [] e.op = "Repeat" -> {[e EXCEPT !.elems = f] : f \in Flips(e.elems)}
      [] OTHER -> {}
Flips(es) ==
    UNION {{[es EXCEPT ![i] = f] : f \in FlipsOf(es[i])} : i \in 1..Len(es)}

\* p is q with the two targets of some Splits swapped.
SplitsSwapped(p, q) ==
    /\ Len(p) = Len(q)
    /\ \A k \in 1..Len(p) :
          \/ p[k] = q[k]
          \/ /\ p[k].inst = "Split" /\ q[k].inst = "Split"
             /\ p[k].t1 = q[k].t2 /\ p[k].t2 = q[k].t1

\* C25: the regex with the greedy flag of any one quantifier flipped compiles
\* to the same program with the targets of that quantifier's Split swapped,
\* and thompson_vm on it returns the same result, and returns in the same
\* cases, as on the original program.
C25_GreedyIrrelevant ==
    Called =>
        \A f \in Flips(rstack) :
            \E c \in {compile_regex(f).out} :
                /\ SplitsSwapped(c, program)
                /\ thompson_vm(c, sequence).status = Outcome

\* A call on the program of a regex with a Star or Plus that is not greedy
\* returned after the whole sequence was matched.
C25_Witness ==
    /\ rphase = "done"
    /\ \E q \in Ops(rstack, {"Star", "Plus"}) : ~q.greedy
    /\ Len(rstack) >= 2
    /\ Len(sequence) >= 2
    /\ Ends(rstack, sequence, {0}) = {Len(sequence)}
    /\ \E f \in Flips(rstack) : compile_regex(f).out # program

\* ------------------------------------------------------------------- C26
Indices == 0..(Len(program) - 1)

\* C26: in every program compile_regex returns, every target of a Jump or
\* Split is an index of the program and every Unit, UnitList and AnyUnit has
\* an instruction after it; every call of thompson_vm on it puts indices of
\* the program in c_list only and raises no IndexError.
C26_WellFormed ==
    /\ rphase # "build" =>
          \A k \in 1..Len(program) :
              LET inst == program[k]
              IN  CASE inst.inst = "Jump" -> inst.goto \in Indices
                    [] inst.inst = "Split" ->
                          inst.t1 \in Indices /\ inst.t2 \in Indices
                    [] inst.inst = "Match" -> TRUE
                    [] OTHER -> k < Len(program)
    /\ Called => rphase # "raised" /\ placed \subseteq Indices

\* A call on a program with a Split, a Jump and a Unit put every index of
\* the program in c_list.
C26_Witness ==
    /\ rphase = "done"
    /\ {"Unit", "Split", "Jump"} \subseteq
          {program[k].inst : k \in 1..Len(program)}
    /\ placed = Indices
    /\ Len(sequence) >= 2

\* ------------------------------------------------------------------ C28
\* Every Branch of t, with or without a Tree tail, depth first.
RECURSIVE AllBranches(_)
AllBranches(t) ==
    IF t.kind = "Branch"
    THEN (IF IsTree(t.elems[Len(t.elems)])
          THEN <<t>> \o AllBranches(t.elems[Len(t.elems)]) ELSE <<t>>)
    ELSE Concat([i \in 1..Len(t.elems) |-> AllBranches(t.elems[i])])

\* No Branch of t holds a Tree and no fork of t holds anything else.
RECURSIVE Settled(_)
Settled(t) ==
    IF t.kind = "Branch"
    THEN \A k \in 1..Len(t.elems) : ~IsTree(t.elems[k])
    ELSE \A k \in 1..Len(t.elems) :
             IsTree(t.elems[k]) /\ Settled(t.elems[k])

\* b is a with some values put in front.
IsExtension(b, a) ==
    /\ Len(b) >= Len(a)
    /\ SubSeq(b, Len(b) - Len(a) + 1, Len(b)) = a

\* Branch.count after the constructor call c.
CountAfter(c) ==
    c.count0 + (IF c.op = "Branch" THEN 1 ELSE NonTrees(c.args, Len(c.args)))

\* C28: canonical_nf constructs no Branch.  Branch.count is what the last
\* constructor call of the pattern left; no fork of the result was given a
\* value that Fork.__init__ had to wrap and no Branch of the result has a
\* Tree tail; every Branch of the result is one of the Branches of the
\* pattern that hold no Tree, with the same id, as the call left that object
\* (its own leaves behind the inherited prefix).
C28_NoBranchConstructed ==
    Normalised =>
        /\ count = CountAfter(lastCall)
        /\ Settled(nf)
        /\ \A was \in {LeafBranches(pat)}, now \in {LeafBranches(stack[1])},
              res \in {LeafBranches(nf)} :
               \A i \in 1..Len(res) : \E j \in 1..Len(was) :
                   /\ was[j].id = res[i].id
                   /\ now[j] = res[i]
                   /\ IsExtension(res[i].elems, was[j].elems)

\* A pattern with a Branch that has a Tree tail and a Branch that inherits a
\* prefix was normalised: the result holds the second, longer than written.
C28_Witness ==
    /\ Normalised
    /\ \E i \in 1..Len(AllBranches(pat)) : HasTreeTail(AllBranches(pat)[i])
    /\ IsFork(nf)
    /\ \E i \in 1..Len(AllBranches(pat)) :
           /\ ~HasTreeTail(AllBranches(pat)[i])
           /\ AllBranches(stack[1])[i] \in {nf.elems[k] : k \in 1..Len(nf.elems)}
           /\ Len(AllBranches(stack[1])[i].elems) > Len(AllBranches(pat)[i].elems)

\* ------------------------------------------------------------------ C29
\* C29: in the result of canonical_nf(), every Branch below an And or Then F
\* (a root, an arm of the root Or, or nested) has more than F.loc elements,
\* and all Branches below F have the same first F.loc elements.
C29_ScopeInvariant ==
    Normalised =>
        \A res \in {Walk(nf)} : \A i \in 1..Len(res) : \A F \in {res[i]} :
            F.kind \in {"And", "Then"} =>
                \A bs \in {AllBranches(F)} :
                \A j \in 1..Len(bs) :
                    /\ Len(bs[j].elems) > F.loc
                    /\ SubSeq(bs[j].elems, 1, F.loc)
                           = SubSeq(bs[1].elems, 1, F.loc)

\* The result has an And or Then with a scope of one or more leaves nested
\* in an And or Then of scope 0.
C29_Witness ==
    /\ Normalised
    /\ \E i \in 1..Len(Walk(nf)) :
           /\ Walk(nf)[i].kind \in {"And", "Then"}
           /\ Walk(nf)[i].loc = 0
           /\ \E k \in 1..Len(Walk(nf)[i].elems) :
                  /\ Walk(nf)[i].elems[k].kind \in {"And", "Then"}
                  /\ Walk(nf)[i].elems[k].loc >= 1

\* ------------------------------------------------- comparing two trees
\* Size of the two tree expressions compared: leaf values written plus
\* constructor calls.
MaxESize == 5

\* A leaf value is evaluated as the next constructor argument.  The values
\* are drawn from Alphabet, so two trees may hold equal leaves.
PushValue(v) ==
    /\ phase = "build"
    /\ leaves + calls < MaxESize
    /\ stack' = Append(stack, Leaf(v))
    /\ leaves' = leaves + 1
    /\ UNCHANGED <<count, calls, lastCall, phase, pat, nf, nf2, exprs>>
    /\ UNCHANGED <<cVars, rVars, oVars>>

\* Branch(*args) while the two operands are being written.
EqBranch(k) == leaves + calls < MaxESize /\ CallBranch(k)

\* And(*args), Then(*args) or Or(*args) while the operands are being written.
EqFork(kind, k) == leaves + calls < MaxESize /\ CallFork(kind, k)

\* a == b on the two trees that have been built: Tree.__eq__(a, b).
Compare ==
    /\ phase = "build"
    /\ Len(stack) = 2
    /\ IsTree(stack[1])
    /\ IsTree(stack[2])
    /\ equal' = Tree_eq(stack[1], stack[2])
    /\ phase' = "compared"
    /\ UNCHANGED <<stack, count, leaves, calls, lastCall, pat, nf, nf2, exprs>>
    /\ UNCHANGED <<cVars, rVars, pVars>>

EqNext ==
    \/ \E v \in Alphabet : PushValue(v)
    \/ \E k \in 0..MaxESize : EqBranch(k)
    \/ \E kind \in ForkKinds, k \in 0..MaxESize : EqFork(kind, k)
    \/ Compare

EqSpec == Init /\ [][EqNext]_vars

\* Exact structural equality: the same concrete class, the same number of
\* elements and pairwise equal elements; a leaf equals a leaf of the same
\* value and nothing else.
RECURSIVE Structural(_, _)
Structural(a, b) ==
    IF IsTree(a) /\ IsTree(b)
    THEN /\ a.kind = b.kind
         /\ Len(a.elems) = Len(b.elems)
         /\ \A i \in 1..Len(a.elems) : Structural(a.elems[i], b.elems[i])
    ELSE /\ ~IsTree(a)
         /\ ~IsTree(b)
         /\ a = b

\* C27: a == b on two trees is true exactly when they have the same class,
\* the same number of elements and pairwise equal elements; Branches of
\* different lengths, and a leaf against a nested tree, are never equal.
C27_ExactEquality ==
    phase = "compared" => (equal <=> Structural(stack[1], stack[2]))

\* ------------------------------------------------------ operast.pattern
\* Size of the pattern expression: leaf values written plus constructor
\* calls (Branch, And, Then, Or of operast.pattern).
MaxPSize == 7

\* A TreePattern object is held by reference: its address in heap.
Ref(n) == [kind |-> "Ref", at |-> n]
IsTreePattern(e) == e.kind = "Ref"

\* The object Branch.__init__ leaves: elems = list(elems).
NewBranch(elems) == [kind |-> "Branch", elems |-> elems]

\* The object ForkPattern.__init__ leaves: elems = list(elems), index = 0.
NewForkPattern(kind, elems) == [kind |-> kind, elems |-> elems, index |-> 0]

\* What a call leaves: the objects, the value returned and the exception
\* raised ("none" when the call returned).
Returned(h, value) == [heap |-> h, value |-> value, err |-> "none"]
Raised(h, err) == [heap |-> h, value |-> None, err |-> err]

RECURSIVE TreePattern_canonical_nf(_, _, _, _)
RECURSIVE ForkPattern_loop(_, _, _, _, _, _, _)

\* Branch.canonical_nf of operast.pattern: a TreePattern tail is normalised
\* with the elems before it added to the prefix; otherwise the prefix is
\* inserted in front of self.elems, in place, and self is returned.
PatternBranch_canonical_nf(h, self, index, elems) ==
    LET n == Len(h[self].elems)
        seq_elems == SubSeq(h[self].elems, 1, n - 1)
        last == h[self].elems[n]
    IN  IF IsTreePattern(last)
        THEN TreePattern_canonical_nf(h, last.at, index + Len(seq_elems),
                                      elems \o seq_elems)
        ELSE Returned([h EXCEPT ![self].elems = elems \o @], Ref(self))

\* self_elems[at:at+1] = xs on a list: position at (from 0) is replaced by
\* xs; a slice that starts at or after the end appends.
SliceAssign(es, at, xs) ==
    IF at >= Len(es) THEN es \o xs
    ELSE SubSeq(es, 1, at) \o xs \o SubSeq(es, at + 2, Len(es))

\* One pass of the for loop with the normal form of self_elems[i] computed:
\* a normal of the class of self is spliced in at offset + i and offset
\* grows by its length, any other normal is stored at offset + i.
ForkPattern_store(r, self, i, n, offset, index, elems) ==
    IF r.err # "none" THEN r
    ELSE LET h == r.heap
             normal == r.value.at
             at == offset + i
         IN  IF h[normal].kind = h[self].kind
             THEN LET h2 == [h EXCEPT ![self].elems =
                                 SliceAssign(@, at, h[normal].elems)]
                  IN  ForkPattern_loop(h2, self, i + 1, n,
                                       offset + Len(h2[normal].elems),
                                       index, elems)
             ELSE IF at >= Len(h[self].elems)
             THEN Raised(h, "IndexError")
             ELSE ForkPattern_loop([h EXCEPT ![self].elems[at + 1] = r.value],
                                   self, i + 1, n, offset, index, elems)

\* for i in range(len(self_elems)), from pass i on, and the return: the
\* element read is self_elems[i]; a TreePattern is normalised with the same
\* index and prefix, any other element becomes Branch(*elems, elem).
ForkPattern_loop(h, self, i, n, offset, index, elems) ==
    IF i = n
    THEN Returned(h, IF Len(h[self].elems) = 1 THEN h[self].elems[1]
                     ELSE Ref(self))
    ELSE IF i >= Len(h[self].elems) THEN Raised(h, "IndexError")
    ELSE LET elem == h[self].elems[i + 1]
         IN  ForkPattern_store(
                 IF IsTreePattern(elem)
                 THEN TreePattern_canonical_nf(h, elem.at, index, elems)
                 ELSE Returned(Append(h, NewBranch(Append(elems, elem))),
                               Ref(Len(h) + 1)),
                 self, i, n, offset, index, elems)

\* ForkPattern.canonical_nf (And, Then, Or): self.index = index, then the
\* loop over the elems self had when it started.
ForkPattern_canonical_nf(h, self, index, elems) ==
    ForkPattern_loop([h EXCEPT ![self].index = index], self, 0,
                     Len(h[self].elems), 0, index, elems)

TreePattern_canonical_nf(h, self, index, elems) ==
    IF h[self].kind = "Branch"
    THEN PatternBranch_canonical_nf(h, self, index, elems)
    ELSE ForkPattern_canonical_nf(h, self, index, elems)

\* The pattern value e stands for, with every reference followed.
RECURSIVE Deref(_, _)
Deref(h, e) ==
    IF ~IsTreePattern(e) THEN e
    ELSE [h[e.at] EXCEPT
            !.elems = [i \in 1..Len(h[e.at].elems) |-> Deref(h, h[e.at].elems[i])]]

\* pattern_equals on the leaf values of the model (classes, compared with
\* is); anything against a TreePattern is False.
pattern_equals(a, b) == a.kind = "Leaf" /\ b.kind = "Leaf" /\ a.v = b.v

\* branch_equals: a TreePattern equals a TreePattern of the same class and
\* length with branch_equals elems; index is not compared.
RECURSIVE branch_equals(_, _)
branch_equals(a, b) ==
    IF a.kind \in {"Branch", "And", "Then", "Or"}
    THEN /\ a.kind = b.kind
         /\ Len(a.elems) = Len(b.elems)
         /\ \A i \in 1..Len(a.elems) : branch_equals(a.elems[i], b.elems[i])
    ELSE pattern_equals(a, b)

\* A leaf value is evaluated as the next constructor argument; the leaves of
\* one pattern are pairwise different.
PatternLeaf ==
    /\ pphase = "build"
    /\ psize < MaxPSize
    /\ pstack' = Append(pstack, Leaf(psize + 1))
    /\ psize' = psize + 1
    /\ UNCHANGED <<heap, pphase, ppat, presult>>
    /\ UNCHANGED <<treeVars, cVars, rVars, eqVars>>

\* Branch(*args) of operast.pattern with the last k values as args:
\* TreePattern.__init__ raises on no elems, Branch.__init__ on a
\* TreePattern before the last position.
PatternBranch(k) ==
    /\ pphase = "build"
    /\ psize < MaxPSize
    /\ k \in 0..Len(pstack)
    /\ LET args == SubSeq(pstack, Len(pstack) - k + 1, Len(pstack))
           below == SubSeq(pstack, 1, Len(pstack) - k)
       IN  IF k = 0 \/ \E i \in 1..(k - 1) : IsTreePattern(args[i])
           THEN /\ pphase' = "raised"
                /\ pstack' = below
                /\ UNCHANGED heap
           ELSE /\ heap' = Append(heap, NewBranch(args))
                /\ pstack' = Append(below, Ref(Len(heap) + 1))
                /\ UNCHANGED pphase
    /\ psize' = psize + 1
    /\ UNCHANGED <<ppat, presult>>
    /\ UNCHANGED <<treeVars, cVars, rVars, eqVars>>

\* And(*args), Then(*args) or Or(*args) of operast.pattern.
PatternFork(kind, k) ==
    /\ pphase = "build"
    /\ psize < MaxPSize
    /\ k \in 0..Len(pstack)
    /\ LET args == SubSeq(pstack, Len(pstack) - k + 1, Len(pstack))
           below == SubSeq(pstack, 1, Len(pstack) - k)
       IN  IF k = 0
           THEN /\ pphase' = "raised"
                /\ UNCHANGED <<pstack, heap>>
           ELSE /\ heap' = Append(heap, NewForkPattern(kind, args))
                /\ pstack' = Append(below, Ref(Len(heap) + 1))
                /\ UNCHANGED pphase
    /\ psize' = psize + 1
    /\ UNCHANGED <<ppat, presult>>
    /\ UNCHANGED <<treeVars, cVars, rVars, eqVars>>

\* pattern.canonical_nf() on the one TreePattern that has been built.
PatternCanonicalNf ==
    /\ pphase = "build"
    /\ Len(pstack) = 1
    /\ IsTreePattern(pstack[1])
    /\ \E r \in {TreePattern_canonical_nf(heap, pstack[1].at, 0, <<>>)} :
           /\ heap' = r.heap
           /\ ppat' = Deref(heap, pstack[1])
           /\ IF r.err = "none"
              THEN /\ presult' = Deref(r.heap, r.value)
                   /\ pphase' = "normalised"
              ELSE /\ presult' = [kind |-> r.err]
                   /\ pphase' = "failed"
    /\ UNCHANGED <<pstack, psize>>
    /\ UNCHANGED <<treeVars, cVars, rVars, eqVars>>

PatternNext ==
    \/ PatternLeaf
    \/ \E k \in 0..MaxPSize : PatternBranch(k)
    \/ \E kind \in ForkKinds, k \in 0..MaxPSize : PatternFork(kind, k)
    \/ PatternCanonicalNf

PatternSpec == Init /\ [][PatternNext]_vars

\* ------------------------------------------------------------------ C30
\* The pattern K(x, Branch(b, K(c, d))) as written, for K = And or Then.
NestedOtherIndex(p) ==
    /\ p.kind \in {"And", "Then"}
    /\ Len(p.elems) = 2
    /\ p.elems[1].kind = "Leaf"
    /\ p.elems[2].kind = "Branch"
    /\ Len(p.elems[2].elems) = 2
    /\ p.elems[2].elems[1].kind = "Leaf"
    /\ p.elems[2].elems[2].kind = p.kind
    /\ Len(p.elems[2].elems[2].elems) = 2
    /\ p.elems[2].elems[2].elems[1].kind = "Leaf"
    /\ p.elems[2].elems[2].elems[2].kind = "Leaf"

\* K(Branch(x), K(Branch(b, c), Branch(b, d))) for that pattern.
KeptNested(p) ==
    LET x == p.elems[1]
        b == p.elems[2].elems[1]
        c == p.elems[2].elems[2].elems[1]
        d == p.elems[2].elems[2].elems[2]
    IN  NewForkPattern(p.kind,
            <<NewBranch(<<x>>),
              NewForkPattern(p.kind,
                  <<NewBranch(<<b, c>>), NewBranch(<<b, d>>)>>)>>)

\* C30: ForkPattern.canonical_nf of operast.pattern splices a nested fork of
\* its own class only when the two have the same index:
\* And(x, Branch(b, And(c, d))).canonical_nf() returns
\* And(Branch(x), And(Branch(b, c), Branch(b, d))), and likewise for Then.
C30_SpliceOnlySameIndex ==
    pphase \in {"normalised", "failed"} /\ NestedOtherIndex(ppat) =>
        /\ pphase = "normalised"
        /\ branch_equals(presult, KeptNested(ppat))


=============================================================================
